---- MODULE Spec2Model ----
(***************************************************************************)
(* State-machine model of the Telegram content-management bot:             *)
(*   - stateManager.js        per-user state map and navigation stack      *)
(*   - handlers/conversations add-case / edit-case wizards                 *)
(*   - commands/content       wizard entry points                          *)
(*   - handlers/navigation    callback routing                             *)
(*   - analytics.js           visit polling monitor                        *)
(* Texts are sequences of lexemes (words and separator characters), so     *)
(* that splitting, trimming and validation are computed, not assumed.      *)
(***************************************************************************)
EXTENDS Integers, Sequences, FiniteSets, Bags, TLC

(***************************************************************************)
(* JavaScript values held in workflow data and in the content document.    *)
(* Every value is a record of the same shape: k is the JS type tag,        *)
(* s the lexemes of a string, a the items of an array.                     *)
(***************************************************************************)
Null == [k |-> "null", s |-> <<>>, a |-> <<>>]

Undef == [k |-> "undefined", s |-> <<>>, a |-> <<>>]

Str(t) == [k |-> "str", s |-> t, a |-> <<>>]

Arr(items) == [k |-> "arr", s |-> <<>>, a |-> items]

\* JS truthiness: null, undefined and '' are falsy; arrays are truthy.
Truthy(v) == \/ v.k = "arr"
             \/ v.k = "str" /\ v.s # <<>>

\* JS `v || d`
OrElse(v, d) == IF Truthy(v) THEN v ELSE d

(***************************************************************************)
(* stateManager.js                                                         *)
(***************************************************************************)
ADMIN_USER_ID == "admin"

Users == {ADMIN_USER_ID}

MAIN_MENU == "main_menu"

MainMenuTitle == "Main Menu"

\* messageId: null
NoMessage == 0

\* a field that was never assigned (undefined startedAt)
NoTime == 0 - 1

DataFields == {"id", "title", "desc", "metrics", "tags", "challenge",
               "approach", "solution", "results", "learnings"}

\* data: {}
EmptyData == [f \in DataFields |-> Undef]

\* navigation object literal of initUserState / updateNavigationContext
DefaultNavigation(t) ==
    [currentMenu |-> MAIN_MENU,
     menuHistory |-> <<MainMenuTitle>>,
     messageId |-> NoMessage,
     lastAction |-> <<>>,
     breadcrumbs |-> <<MainMenuTitle>>,
     lastInteraction |-> t]

\* userStates has no entry for the user
Absent ==
    [present |-> FALSE, command |-> "undefined", currentStep |-> "undefined",
     data |-> EmptyData, fromNavigation |-> FALSE, startedAt |-> NoTime,
     navigation |-> DefaultNavigation(NoTime)]

initUserState(us, userId, t) ==
    [us EXCEPT ![userId] =
        [present |-> TRUE, command |-> "null", currentStep |-> "null",
         data |-> EmptyData, fromNavigation |-> FALSE, startedAt |-> t,
         navigation |-> DefaultNavigation(t)]]

getUserState(us, userId) == us[userId]

\* a faulty merge that drops currentStep from the updates
updateUserStateCommandOnly(us, userId, command, currentStep, data, fromNav) ==
    [us EXCEPT ![userId] =
        [@ EXCEPT !.present = TRUE, !.command = command, !.data = data,
                  !.fromNavigation = fromNav]]

\* updates: command, currentStep, data (and data.fromNavigation)
updateUserState(us, userId, command, currentStep, data, fromNav) ==
    [us EXCEPT ![userId] =
        [@ EXCEPT !.present = TRUE, !.command = command,
                  !.currentStep = currentStep, !.data = data,
                  !.fromNavigation = fromNav]]

clearUserState(us, userId) == [us EXCEPT ![userId] = Absent]

hasActiveState(us, userId) == us[userId].present

\* cleanupOldStates at time t: an entry goes when startedAt < t - 1 hour; an
\* entry without startedAt (undefined < number is false) stays.  hour is the
\* hour in clock ticks
cleanupOldStates(us, t, hour) ==
    [userId \in DOMAIN us |->
        IF /\ us[userId].present
           /\ us[userId].startedAt # NoTime
           /\ us[userId].startedAt < t - hour
        THEN Absent ELSE us[userId]]

\* state?.navigation || null ; HasNavigation tells whether it is non-null
HasNavigation(us, userId) == us[userId].present

getNavigationContext(us, userId) == us[userId].navigation

updateNavigationContext(us, userId, nav, t) ==
    [us EXCEPT ![userId] =
        [@ EXCEPT !.present = TRUE,
                  !.navigation = [nav EXCEPT !.lastInteraction = t]]]

Last(s) == s[Len(s)]

Front(s) == SubSeq(s, 1, Len(s) - 1)

\* a faulty navigateToMenu that forgets to push the breadcrumb
navigateToMenuHistoryOnly(us, userId, menuState, menuTitle, messageId, t) ==
    LET context == IF HasNavigation(us, userId)
                   THEN getNavigationContext(us, userId)
                   ELSE DefaultNavigation(t)
    IN  updateNavigationContext(us, userId,
            [context EXCEPT !.currentMenu = menuState,
                            !.menuHistory = IF Last(@) # menuTitle
                                            THEN Append(@, menuTitle) ELSE @],
            t)

\* a faulty navigateToMenu that pushes the title without looking at the top
navigateToMenuAlwaysPush(us, userId, menuState, menuTitle, messageId, t) ==
    LET context == IF HasNavigation(us, userId)
                   THEN getNavigationContext(us, userId)
                   ELSE DefaultNavigation(t)
    IN  updateNavigationContext(us, userId,
            [context EXCEPT !.currentMenu = menuState,
                            !.menuHistory = Append(@, menuTitle),
                            !.breadcrumbs = Append(@, menuTitle),
                            !.messageId = IF messageId # NoMessage THEN messageId
                                          ELSE context.messageId,
                            !.lastAction = <<"navigate_to", menuState>>],
            t)

navigateToMenu(us, userId, menuState, menuTitle, messageId, t) ==
    LET context == IF HasNavigation(us, userId)
                   THEN getNavigationContext(us, userId)
                   ELSE DefaultNavigation(t)
        push == Last(context.menuHistory) # menuTitle
        menuHistory == IF push THEN Append(context.menuHistory, menuTitle)
                       ELSE context.menuHistory
        breadcrumbs == IF push THEN Append(context.breadcrumbs, menuTitle)
                       ELSE context.breadcrumbs
    IN  updateNavigationContext(us, userId,
            [context EXCEPT !.currentMenu = menuState,
                            !.menuHistory = menuHistory,
                            !.breadcrumbs = breadcrumbs,
                            !.messageId = IF messageId # NoMessage THEN messageId
                                          ELSE context.messageId,
                            !.lastAction = <<"navigate_to", menuState>>],
            t)

\* navigateBack returns null
navigateBackIsNull(us, userId) ==
    \/ ~HasNavigation(us, userId)
    \/ Len(getNavigationContext(us, userId).menuHistory) <= 1

TitleToState(title) ==
    CASE title = "Content Management" -> "content_category"
      [] title = "Analytics" -> "analytics_category"
      [] title = "System Tools" -> "system_category"
      [] title = "Help & Info" -> "help_category"
      [] OTHER -> MAIN_MENU

\* a faulty navigateBack that records the attempt even when it returns null
navigateBackRecordingAttempt(us, userId, t) ==
    IF ~HasNavigation(us, userId) THEN us
    ELSE LET context == getNavigationContext(us, userId)
             atRoot == Len(context.menuHistory) <= 1
             menuHistory == IF atRoot THEN context.menuHistory
                            ELSE Front(context.menuHistory)
             breadcrumbs == IF atRoot THEN context.breadcrumbs
                            ELSE Front(context.breadcrumbs)
             previousMenuState == TitleToState(Last(menuHistory))
         IN  updateNavigationContext(us, userId,
                 [context EXCEPT !.currentMenu = previousMenuState,
                                 !.menuHistory = menuHistory,
                                 !.breadcrumbs = breadcrumbs,
                                 !.lastAction = <<"navigate_back_to", previousMenuState>>],
                 t)

navigateBack(us, userId, t) ==
    IF navigateBackIsNull(us, userId) THEN us
    ELSE LET context == getNavigationContext(us, userId)
             menuHistory == Front(context.menuHistory)
             breadcrumbs == Front(context.breadcrumbs)
             previousMenuState == TitleToState(Last(menuHistory))
         IN  updateNavigationContext(us, userId,
                 [context EXCEPT !.currentMenu = previousMenuState,
                                 !.menuHistory = menuHistory,
                                 !.breadcrumbs = breadcrumbs,
                                 !.lastAction = <<"navigate_back_to", previousMenuState>>],
                 t)

setNavigationMessageId(us, userId, messageId, t) ==
    LET context == IF HasNavigation(us, userId)
                   THEN getNavigationContext(us, userId)
                   ELSE DefaultNavigation(t)
    IN  updateNavigationContext(us, userId,
            [context EXCEPT !.messageId = messageId], t)

\* a faulty test that takes any entry for a workflow
isInActiveWorkflowAnyEntry(us, userId) == us[userId].present

isInActiveWorkflow(us, userId) ==
    /\ us[userId].present
    /\ \/ us[userId].command \notin {"null", "undefined"}
       \/ us[userId].currentStep \notin {"null", "undefined"}

(***************************************************************************)
(* utils/messageEditor.js: a menu render either edits the pressed message, *)
(* sends a new one (normal send, fallback or plain-text rescue), or fails  *)
(* completely.  mid is the id of the message that now carries the menu,    *)
(* NoMessage when every tier failed.  It never throws.                     *)
(***************************************************************************)
\* a faulty render that does not record the id of the message
updateMenuMessageForgettingId(us, userId, mid, t) == us

updateMenuMessage(us, userId, mid, t) ==
    IF mid = NoMessage THEN us
    ELSE setNavigationMessageId(us, userId, mid, t)

(***************************************************************************)
(* Texts typed by the user, as lexeme sequences.                           *)
(***************************************************************************)
SKIP == <<"/skip">>

KEEP == <<"/keep">>

ProjX == <<"proj", "_", "x">>

OldCase == <<"old">>

Demo == <<"Demo">>

BadId == <<"Bad", "-", "Id">>

ListText == <<"a", ",", " ", ",", " ", "b">>

Blank == <<" ">>

\* lexemes made of lowercase Latin letters and digits only
LowerWords == {"proj", "x", "old", "a", "b"}

\* utils/validators: /^[a-z0-9_]+$/
isValidCaseId(t) ==
    /\ t # <<>>
    /\ \A i \in 1..Len(t) : t[i] \in LowerWords \cup {"_"}

RECURSIVE TrimLeft(_)
TrimLeft(t) == IF t # <<>> /\ Head(t) = " " THEN TrimLeft(Tail(t)) ELSE t

RECURSIVE TrimRight(_)
TrimRight(t) == IF t # <<>> /\ Last(t) = " " THEN TrimRight(Front(t)) ELSE t

\* String.prototype.trim
Trim(t) == TrimRight(TrimLeft(t))

\* String.prototype.split(sep): the pieces between separators
RECURSIVE SplitOn(_, _, _)
SplitOn(t, sep, cur) ==
    IF t = <<>> THEN <<cur>>
    ELSE IF Head(t) = sep THEN <<cur>> \o SplitOn(Tail(t), sep, <<>>)
    ELSE SplitOn(Tail(t), sep, Append(cur, Head(t)))

Split(t, sep) == SplitOn(t, sep, <<>>)

RECURSIVE TrimNonEmpty(_)
TrimNonEmpty(parts) ==
    IF parts = <<>> THEN <<>>
    ELSE LET p == Trim(Head(parts))
         IN  (IF p = <<>> THEN <<>> ELSE <<p>>) \o TrimNonEmpty(Tail(parts))

\* utils/validators: split on commas, trim, drop empty items
parseArrayInput(t) == IF t = <<>> THEN <<>> ELSE TrimNonEmpty(Split(t, ","))

(***************************************************************************)
(* The content document (content.GLOBAL_DATA) held by the content API.     *)
(***************************************************************************)
InputTexts == {SKIP, KEEP, ProjX, OldCase, Demo, BadId, ListText, Blank}

CaseIds == {t \in InputTexts : isValidCaseId(t)}

NoStudy == [present |-> FALSE, title |-> Undef, desc |-> Undef,
            metrics |-> Undef, tags |-> Undef]

NoDetails == [present |-> FALSE, challenge |-> Undef, approach |-> Undef,
              solution |-> Undef, results |-> Undef, learnings |-> Undef]

EmptyContent == [case_studies |-> [c \in CaseIds |-> NoStudy],
                 case_details |-> [c \in CaseIds |-> NoDetails]]

\* A document that already holds one case, written by hand: no description,
\* no case_details entry.
InitialContent ==
    [EmptyContent EXCEPT
        !.case_studies[OldCase] =
            [present |-> TRUE, title |-> Str(<<"Old">>), desc |-> Null,
             metrics |-> Str(<<"10x">>), tags |-> Arr(<<<<"web">>>>)]]

\* utils/validators: content.GLOBAL_DATA.case_studies has the id
caseExists(doc, id) == id \in CaseIds /\ doc.case_studies[id].present

(***************************************************************************)
(* Wizard steps (stateManager.js) and the field each step collects.        *)
(***************************************************************************)
Fields == <<"id", "title", "desc", "metrics", "tags", "challenge",
            "approach", "solution", "results", "learnings">>

ADD_CASE_STATES ==
    <<"waiting_id", "waiting_title", "waiting_desc", "waiting_metrics",
      "waiting_tags", "waiting_challenge", "waiting_approach",
      "waiting_solution", "waiting_results", "waiting_learnings">>

EDIT_CASE_STATES ==
    <<"waiting_case_id_to_edit", "waiting_title_edit", "waiting_desc_edit",
      "waiting_metrics_edit", "waiting_tags_edit", "waiting_challenge_edit",
      "waiting_approach_edit", "waiting_solution_edit", "waiting_results_edit",
      "waiting_learnings_edit">>

ArrayFields == {"tags", "approach", "results"}

Range(s) == {s[i] : i \in 1..Len(s)}

IndexOf(s, x) == CHOOSE i \in 1..Len(s) : s[i] = x

(***************************************************************************)
(* handlers/conversations.js: effect of one answer on the user's state     *)
(* object (state.data is mutated in place, then updateUserState).          *)
(***************************************************************************)
\* a faulty step that stores the text of a skipped answer
handleGenericStepStoringSkip(st, key, nextStep, isSkip, text) ==
    [st EXCEPT !.data[key] = Str(text), !.currentStep = nextStep]

handleGenericStep(st, key, nextStep, isSkip, text) ==
    [st EXCEPT !.data[key] = IF isSkip THEN Null ELSE Str(text),
               !.currentStep = nextStep]

promptNext(st, nextStep) == [st EXCEPT !.currentStep = nextStep]

promptNextEdit(st, nextStep) == [st EXCEPT !.currentStep = nextStep]

\* a faulty answer that jumps over the next step
AddCaseAnswerSkippingAhead(st, i, input) ==
    [st EXCEPT !.data[Fields[i]] = IF input = SKIP THEN Null ELSE Str(input),
               !.currentStep = ADD_CASE_STATES[IF i < 9 THEN i + 2 ELSE 10]]

\* one add-case answer at steps 2..9 (title .. results)
AddCaseAnswer(st, i, input) ==
    LET isSkip == input = SKIP
    IN  IF Fields[i] \in ArrayFields
        THEN promptNext([st EXCEPT !.data[Fields[i]] =
                            IF isSkip THEN Arr(<<>>) ELSE Arr(parseArrayInput(input))],
                        ADD_CASE_STATES[i + 1])
        ELSE handleGenericStep(st, Fields[i], ADD_CASE_STATES[i + 1], isSkip, input)

\* the value an edit-case answer assigns to a field
EditValue(st, i, input) ==
    IF input = KEEP THEN st.data[Fields[i]]
    ELSE IF Fields[i] \in ArrayFields THEN Arr(parseArrayInput(input))
    ELSE Str(input)

\* one edit-case answer at steps 2..9
EditCaseAnswer(st, i, input) ==
    promptNextEdit([st EXCEPT !.data[Fields[i]] = EditValue(st, i, input)],
                   EDIT_CASE_STATES[i + 1])

\* the document saveCaseData sends to updateContent
saveCaseData(doc, data) ==
    [doc EXCEPT
        !.case_studies[data.id.s] =
            [present |-> TRUE,
             title |-> OrElse(data.title, Str(<<>>)),
             desc |-> OrElse(data.desc, Str(<<>>)),
             metrics |-> OrElse(data.metrics, Str(<<>>)),
             tags |-> OrElse(data.tags, Arr(<<>>))],
        !.case_details[data.id.s] =
            [present |-> TRUE,
             challenge |-> OrElse(data.challenge, Str(<<>>)),
             approach |-> OrElse(data.approach, Arr(<<>>)),
             solution |-> OrElse(data.solution, Str(<<>>)),
             results |-> OrElse(data.results, Arr(<<>>)),
             learnings |-> OrElse(data.learnings, Str(<<>>))]]

\* the document updateExistingCase sends to updateContent
updateExistingCase(doc, data) ==
    [doc EXCEPT
        !.case_studies[data.id.s] =
            [present |-> TRUE, title |-> data.title, desc |-> data.desc,
             metrics |-> data.metrics, tags |-> data.tags],
        !.case_details[data.id.s] =
            [present |-> TRUE, challenge |-> data.challenge,
             approach |-> data.approach, solution |-> data.solution,
             results |-> data.results, learnings |-> data.learnings]]

\* one call to the content API or the backup service
Call(op, ok, doc) == [op |-> op, ok |-> ok, doc |-> doc]

\* The awaited calls of saveCaseData / updateExistingCase, in order:
\* getContent, createBackup(fetched), updateContent(newDoc); a rejected
\* call throws and ends the sequence.
PersistNoBackupGuard(fetched, newDoc, okGet, okBackup, okUpdate) ==
    IF ~okGet THEN <<Call("getContent", FALSE, fetched)>>
    ELSE <<Call("getContent", TRUE, fetched),
           Call("createBackup", okBackup, fetched),
           Call("updateContent", okUpdate, newDoc)>>

PersistCalls(fetched, newDoc, okGet, okBackup, okUpdate) ==
    IF ~okGet THEN <<Call("getContent", FALSE, fetched)>>
    ELSE IF ~okBackup
         THEN <<Call("getContent", TRUE, fetched),
                Call("createBackup", FALSE, fetched)>>
    ELSE <<Call("getContent", TRUE, fetched),
           Call("createBackup", TRUE, fetched),
           Call("updateContent", okUpdate, newDoc)>>

\* every call of the sequence resolved
AllOk(cs) == \A i \in 1..Len(cs) : cs[i].ok

\* the remote document after the calls
RemoteAfter(doc, cs) ==
    IF cs # <<>> /\ Last(cs).op = "updateContent" /\ Last(cs).ok
    THEN Last(cs).doc ELSE doc

(***************************************************************************)
(* commands/content.js: state.data at wizard start                         *)
(***************************************************************************)
AddCaseData ==
    [f \in DataFields |-> IF f \in ArrayFields THEN Arr(<<>>) ELSE Null]

EditCaseData(doc, caseId) ==
    LET caseBasic == doc.case_studies[caseId]
        caseDetails == doc.case_details[caseId]
    IN  [id |-> Str(caseId),
         title |-> OrElse(caseBasic.title, Str(<<>>)),
         desc |-> OrElse(caseBasic.desc, Str(<<>>)),
         metrics |-> OrElse(caseBasic.metrics, Str(<<>>)),
         tags |-> OrElse(caseBasic.tags, Arr(<<>>)),
         challenge |-> OrElse(caseDetails.challenge, Str(<<>>)),
         approach |-> OrElse(caseDetails.approach, Arr(<<>>)),
         solution |-> OrElse(caseDetails.solution, Str(<<>>)),
         results |-> OrElse(caseDetails.results, Arr(<<>>)),
         learnings |-> OrElse(caseDetails.learnings, Str(<<>>))]

(***************************************************************************)
(* Bounds                                                                  *)
(***************************************************************************)
\* message ids the chat can hand out
MaxMsgId == 1

\* longest menuHistory the user builds by pressing category buttons
MaxDepth == 2

\* visits the analytics API reports
MaxVisits == 2

\* clock ticks (of TickMinutes minutes)
MaxTime == 2

\* clock ticks when the sweep of the user states is followed
MaxSweepTime == 3

\* checkVisits runs
MaxChecks == 3

\* checkVisits runs when the error counter is followed over the threshold
MaxFailingChecks == 8

VisitIds == 1..MaxVisits

TickMinutes == 30

\* 60 * 60 * 1000 ms in ticks
Hour == 60 \div TickMinutes

\* a visit: without an access code and with or without visited pages, with
\* an access code and pages, with a code and no pages
VisitKinds == {"anonymous", "anonymous_nopages", "code_pages", "code_nopages"}

NoVisit == [present |-> FALSE, ts |-> 0, kind |-> "anonymous"]

\* no checkVisits call is running
IdleCheck == [pc |-> "idle", checkStartTime |-> 0, since |-> 0,
              visits |-> <<>>, newVisitsCount |-> 0]

\* Set.has
Has(seq, x) == \E i \in 1..Len(seq) : seq[i] = x

\* Set.add: a new element goes last
SetAdd(seq, x) == IF Has(seq, x) THEN seq ELSE Append(seq, x)

MsgIds == 1..MaxMsgId

\* outcome of a render: the id now carrying the menu, or NoMessage
RenderIds == MsgIds \cup {NoMessage}

(***************************************************************************)
(* utils/messageEditor.js: the value updateMenuMessage returns, with the   *)
(* chat-API calls it made (ops); buttons is the keyboard of the menu it was *)
(* given, kept for the main menu, the category menus and the error menus.  *)
(* cb: the update is a button press whose                                  *)
(* message has the id pressed; new: the id a sent message gets; okEdit,    *)
(* okAnswer, okSend, okPlain: whether editMessageText, answerCallbackQuery,*)
(* the formatted reply and the plain-text reply succeed.                   *)
(***************************************************************************)
ChatOp(op, ok) == [op |-> op, ok |-> ok]

\* no updateMenuMessage call was made
NoRender == [success |-> FALSE, action |-> "none", messageId |-> NoMessage,
             ops |-> <<>>, buttons |-> <<>>]

\* a faulty last resort that reports success whatever happened
handleCriticalErrorClaimingSuccess(ops, new, okPlain) ==
    [success |-> TRUE,
     action |-> IF okPlain THEN "critical_error_basic_message" ELSE "total_failure",
     messageId |-> IF okPlain THEN new ELSE NoMessage,
     ops |-> Append(ops, ChatOp("plain", okPlain)),
     buttons |-> <<>>]

\* _handleCriticalError: the plain-text apology
handleCriticalError(ops, new, okPlain) ==
    IF okPlain
    THEN [success |-> FALSE, action |-> "critical_error_basic_message",
          messageId |-> new, ops |-> Append(ops, ChatOp("plain", TRUE)),
          buttons |-> <<>>]
    ELSE [success |-> FALSE, action |-> "total_failure",
          messageId |-> NoMessage, ops |-> Append(ops, ChatOp("plain", FALSE)),
          buttons |-> <<>>]

\* _handleEditFallback: answerCallbackQuery, then a new message
handleEditFallback(ops, new, okAnswer, okSend, okPlain) ==
    IF ~okAnswer
    THEN handleCriticalError(Append(ops, ChatOp("answer", FALSE)), new, okPlain)
    ELSE IF ~okSend
    THEN handleCriticalError(ops \o <<ChatOp("answer", TRUE), ChatOp("send", FALSE)>>,
                             new, okPlain)
    ELSE [success |-> TRUE, action |-> "fallback_new_message", messageId |-> new,
          ops |-> ops \o <<ChatOp("answer", TRUE), ChatOp("send", TRUE)>>,
          buttons |-> <<>>]

updateMenuMessageResult(cb, pressed, new, okEdit, okAnswer, okSend, okPlain) ==
    IF cb
    THEN IF okEdit
         THEN [success |-> TRUE, action |-> "edited", messageId |-> pressed,
               ops |-> <<ChatOp("edit", TRUE)>>, buttons |-> <<>>]
         ELSE handleEditFallback(<<ChatOp("edit", FALSE)>>, new, okAnswer, okSend, okPlain)
    ELSE IF okSend
         THEN [success |-> TRUE, action |-> "sent", messageId |-> new,
               ops |-> <<ChatOp("send", TRUE)>>, buttons |-> <<>>]
         ELSE handleCriticalError(<<ChatOp("send", FALSE)>>, new, okPlain)

\* every way a render can end when a button was pressed
CallbackRenders ==
    {updateMenuMessageResult(TRUE, pressed, new, okEdit, okAnswer, okSend, okPlain) :
        pressed \in MsgIds, new \in MsgIds, okEdit \in BOOLEAN, okAnswer \in BOOLEAN,
        okSend \in BOOLEAN, okPlain \in BOOLEAN}

\* every way a render can end when a message or command is handled
MessageRenders ==
    {updateMenuMessageResult(FALSE, pressed, new, okEdit, okAnswer, okSend, okPlain) :
        pressed \in MsgIds, new \in MsgIds, okEdit \in BOOLEAN, okAnswer \in BOOLEAN,
        okSend \in BOOLEAN, okPlain \in BOOLEAN}

RenderOutcomes == [cb \in BOOLEAN |-> IF cb THEN CallbackRenders ELSE MessageRenders]

\* the renders of a chat API that serves every call of a handler or none
UniformCallbackRenders ==
    {r \in CallbackRenders : \A i, j \in DOMAIN r.ops : r.ops[i].ok = r.ops[j].ok}

UniformMessageRenders ==
    {r \in MessageRenders : \A i, j \in DOMAIN r.ops : r.ops[i].ok = r.ops[j].ok}

UniformRenders ==
    [cb \in BOOLEAN |-> IF cb THEN UniformCallbackRenders ELSE UniformMessageRenders]

(***************************************************************************)
(* The menu messages of the chat.  A message keeps its inline keyboard     *)
(* until the bot edits it, so every button of every menu message sent so   *)
(* far can be pressed.  menus is the bag of those keyboards; tracked is    *)
(* FALSE when they are not followed, and then any button may be pressed.   *)
(***************************************************************************)
Untracked == [tracked |-> FALSE, menus |-> EmptyBag]

EmptyChat == [tracked |-> TRUE, menus |-> EmptyBag]

\* the keyboards a press of token can come from
PressedKeyboards(scr, token) ==
    IF ~scr.tracked THEN {<<>>}
    ELSE {kb \in BagToSet(scr.menus) : token \in Range(kb)}

\* utils/messageEditor.js updateMenuMessage, seen from the chat: an edit
\* replaces the keyboard of the message pressed, a sent message adds one,
\* the plain-text apology carries no keyboard
ScreenAfter(scr, pressed, r) ==
    IF ~scr.tracked THEN scr
    ELSE CASE r.action = "edited" ->
                [scr EXCEPT !.menus = (@ (-) SetToBag({pressed})) (+) SetToBag({r.buttons})]
           [] r.action \in {"sent", "fallback_new_message"} ->
                [scr EXCEPT !.menus = @ (+) SetToBag({r.buttons})]
           [] OTHER -> scr

VARIABLES
    userStates,   \* stateManager.js userStates map
    now,          \* Date.now()
    content,      \* the document behind getContent / updateContent
    calls,        \* content-API / backup calls made by the latest handler
    chat,         \* chat-API calls of the latest handler, where outcomes matter
    rendered,     \* what the latest handler's last updateMenuMessage returned
    screen,       \* the keyboards of the menu messages in the chat, when tracked
    lastEvent,    \* the latest update handled and how it ended
    isRunning,    \* AnalyticsMonitor.isRunning
    checkTimer,   \* AnalyticsMonitor.checkTimer is set
    stats,        \* AnalyticsMonitor.stats
    notifiedVisitIds, \* the Set, as its elements in insertion order
    matomo,       \* the visits the analytics API knows
    chk,          \* the checkVisits call in flight
    attempts,     \* per visit: notification sends attempted so far
    fetched,      \* per visit: fetches that returned it so far (up to 2)
    forgotten,    \* visits dropped from notifiedVisitIds so far
    inFlight,     \* checkVisits calls begun and not yet over
    suspended     \* a second checkVisits call, waiting at an await

uvars == <<userStates, content, calls, chat, rendered, screen>>

mvars == <<isRunning, checkTimer, stats, notifiedVisitIds, matomo, chk,
           attempts, fetched, forgotten, inFlight, suspended>>

vars == <<userStates, now, content, calls, chat, rendered, screen, lastEvent, mvars>>

Event(op, input, out) == [op |-> op, input |-> input, out |-> out]

PromptCommands == {"edit_case_prompt", "delete_case_prompt",
                   "preview_case_prompt", "rollback_prompt"}

\* analytics.js constructor
MonitorInit ==
    /\ isRunning = FALSE
    /\ checkTimer = FALSE
    /\ stats = [checksPerformed |-> 0, notificationsSent |-> 0,
                lastCheckTime |-> 0 - Hour, errors |-> 0]
    /\ notifiedVisitIds = <<>>
    /\ matomo = [v \in VisitIds |-> NoVisit]
    /\ chk = IdleCheck
    /\ attempts = [v \in VisitIds |-> 0]
    /\ fetched = [v \in VisitIds |-> 0]
    /\ forgotten = {}
    /\ inFlight = 0
    /\ suspended = IdleCheck

Init ==
    /\ userStates = [u \in Users |-> Absent]
    /\ now = 0
    /\ content = InitialContent
    /\ calls = <<>>
    /\ chat = <<>>
    /\ rendered = NoRender
    /\ screen = Untracked
    /\ lastEvent = Event("boot", <<>>, "ok")
    /\ MonitorInit

(***************************************************************************)
(* Slash commands                                                          *)
(***************************************************************************)
\* commands/system.js handleCancel
CmdCancel(u) ==
    /\ IF ~hasActiveState(userStates, u)
       THEN /\ lastEvent' = Event("/cancel", <<>>, "no_session")
            /\ UNCHANGED userStates
       ELSE /\ userStates' = clearUserState(userStates, u)
            /\ lastEvent' = Event("/cancel", <<>>, "cancelled")
    /\ calls' = <<>>
    /\ chat' = <<>>
    /\ rendered' = NoRender
    /\ UNCHANGED <<now, content, mvars>>
    /\ screen' = Untracked

\* commands/content.js handleAddCase, applied to the map us
handleAddCase(us, u, t) ==
    IF hasActiveState(us, u) THEN us
    ELSE updateUserState(initUserState(us, u, t), u, "add_case",
                         ADD_CASE_STATES[1], AddCaseData, FALSE)

CmdAddCase(u) ==
    /\ userStates' = handleAddCase(userStates, u, now)
    /\ lastEvent' = Event("/add_case", <<>>,
                          IF hasActiveState(userStates, u)
                          THEN "already_active" ELSE "started")
    /\ calls' = <<>>
    /\ chat' = <<>>
    /\ rendered' = NoRender
    /\ UNCHANGED <<now, content, mvars>>
    /\ screen' = Untracked

\* commands/content.js handleEditCase, applied to the map us; caseId is the
\* first word after the command (<<>> when none), okGet the getContent outcome
handleEditCase(us, u, caseId, doc, okGet, t) ==
    IF hasActiveState(us, u) THEN us
    ELSE IF caseId # <<>>
         THEN IF okGet /\ caseExists(doc, caseId)
              THEN updateUserState(initUserState(us, u, t), u, "edit_case",
                                   EDIT_CASE_STATES[2], EditCaseData(doc, caseId), FALSE)
              ELSE us
         ELSE updateUserState(initUserState(us, u, t), u, "edit_case",
                              EDIT_CASE_STATES[1], EmptyData, FALSE)

EditCaseOutcome(us, u, caseId, doc, okGet) ==
    IF hasActiveState(us, u) THEN "already_active"
    ELSE IF caseId = <<>> THEN "ask_id"
    ELSE IF ~okGet THEN "error"
    ELSE IF caseExists(doc, caseId) THEN "started" ELSE "not_found"

EditCaseCalls(us, u, caseId, doc, okGet) ==
    IF ~hasActiveState(us, u) /\ caseId # <<>>
    THEN <<Call("getContent", okGet, doc)>> ELSE <<>>

CmdEditCase(u, caseId) ==
    \E okGet \in BOOLEAN :
        /\ userStates' = handleEditCase(userStates, u, caseId, content, okGet, now)
        /\ lastEvent' = Event("/edit_case", caseId,
                              EditCaseOutcome(userStates, u, caseId, content, okGet))
        /\ calls' = EditCaseCalls(userStates, u, caseId, content, okGet)
        /\ chat' = <<>>
        /\ rendered' = NoRender
        /\ UNCHANGED <<now, content, mvars>>
        /\ screen' = Untracked

(***************************************************************************)
(* Text messages: handlers/conversations.js handleConversation dispatches  *)
(* on state.command; each action below is one branch of that dispatch.     *)
(***************************************************************************)
\* a faulty id step that does not look the id up
handleCaseIdInputNoLookup(st, input, doc, okGet) ==
    IF input = SKIP \/ ~isValidCaseId(input) \/ ~okGet
    THEN st
    ELSE [st EXCEPT !.data.id = Str(input), !.currentStep = ADD_CASE_STATES[2]]

\* handleCaseIdInput: the state object after the answer at the id step
handleCaseIdInput(st, input, doc, okGet) ==
    IF \/ input = SKIP
       \/ ~isValidCaseId(input)
       \/ ~okGet
       \/ caseExists(doc, input)
    THEN st
    ELSE [st EXCEPT !.data.id = Str(input), !.currentStep = ADD_CASE_STATES[2]]

CaseIdOutcome(input, doc, okGet) ==
    IF input = SKIP THEN "id_required"
    ELSE IF ~isValidCaseId(input) THEN "invalid_id"
    ELSE IF ~okGet THEN "error"
    ELSE IF caseExists(doc, input) THEN "exists" ELSE "id_saved"

\* the replies of the id step: the answer to the input (none when getContent
\* threw), then the error report of handleAddCaseConversation's catch when
\* getContent or that answer failed; the report itself is delivered
CaseIdChat(input, okGet, okReply) ==
    IF input # SKIP /\ isValidCaseId(input) /\ ~okGet
    THEN <<ChatOp("report", TRUE)>>
    ELSE IF okReply THEN <<ChatOp("reply", TRUE)>>
    ELSE <<ChatOp("reply", FALSE), ChatOp("report", TRUE)>>

\* add_case, WAITING_ID
AddCaseIdText(u, input) ==
    LET st == userStates[u]
    IN  /\ st.present /\ st.command = "add_case"
        /\ st.currentStep = ADD_CASE_STATES[1]
        /\ \E okGet, okReply \in BOOLEAN :
              /\ userStates' = [userStates EXCEPT
                                   ![u] = handleCaseIdInput(st, input, content, okGet)]
              /\ calls' = IF input # SKIP /\ isValidCaseId(input)
                          THEN <<Call("getContent", okGet, content)>> ELSE <<>>
              /\ chat' = CaseIdChat(input, okGet, okReply)
              /\ rendered' = NoRender
              /\ lastEvent' = Event("text", input,
                                    IF okReply \/ CaseIdOutcome(input, content, okGet) = "error"
                                    THEN CaseIdOutcome(input, content, okGet)
                                    ELSE "reply_failed")
        /\ UNCHANGED <<now, content, mvars>>
        /\ screen' = Untracked

\* add_case, WAITING_TITLE .. WAITING_RESULTS
AddCaseStepText(u, input, R) ==
    LET st == userStates[u]
    IN  /\ st.present /\ st.command = "add_case"
        /\ st.currentStep \in {ADD_CASE_STATES[i] : i \in 2..9}
        /\ \E r \in R[FALSE] :
              /\ chat' = r.ops
              /\ rendered' = r
              /\ userStates' =
                  updateMenuMessage(
                      [userStates EXCEPT
                          ![u] = AddCaseAnswer(st, IndexOf(ADD_CASE_STATES, st.currentStep),
                                               input)],
                      u, r.messageId, now)
        /\ calls' = <<>>
        /\ lastEvent' = Event("text", input, "next_step")
        /\ UNCHANGED <<now, content, mvars>>
        /\ screen' = Untracked

\* add_case, WAITING_LEARNINGS: store the answer, saveCaseData, clearUserState;
\* a rejected call is caught by the handler and leaves the state in place
AddCaseFinishText(u, input, R) ==
    LET st == userStates[u]
        st1 == [st EXCEPT !.data.learnings = IF input = SKIP THEN Null ELSE Str(input)]
        us1 == [userStates EXCEPT ![u] = st1]
    IN  /\ st.present /\ st.command = "add_case"
        /\ st.currentStep = ADD_CASE_STATES[10]
        /\ \E okGet, okBackup, okUpdate \in BOOLEAN, r \in R[FALSE] :
              LET cs == PersistCalls(content, saveCaseData(content, st1.data),
                                     okGet, okBackup, okUpdate)
              IN  /\ calls' = cs
                  /\ content' = RemoteAfter(content, cs)
                  /\ IF AllOk(cs)
                     THEN /\ userStates' =
                                clearUserState(updateMenuMessage(us1, u, r.messageId, now), u)
                          /\ chat' = r.ops
                          /\ rendered' = r
                          /\ lastEvent' = Event("text", input, "created")
                     ELSE /\ userStates' = us1
                          /\ chat' = <<ChatOp("report", TRUE)>>
                          /\ rendered' = NoRender
                          /\ lastEvent' = Event("text", input, "error")
        /\ UNCHANGED <<now, mvars>>
        /\ screen' = Untracked

\* edit_case, WAITING_TITLE .. WAITING_RESULTS
EditCaseStepText(u, input, R) ==
    LET st == userStates[u]
    IN  /\ st.present /\ st.command = "edit_case"
        /\ st.currentStep \in {EDIT_CASE_STATES[i] : i \in 2..9}
        /\ \E r \in R[FALSE] :
              /\ chat' = r.ops
              /\ rendered' = r
              /\ userStates' =
                  updateMenuMessage(
                      [userStates EXCEPT
                          ![u] = EditCaseAnswer(st, IndexOf(EDIT_CASE_STATES, st.currentStep),
                                                input)],
                      u, r.messageId, now)
        /\ calls' = <<>>
        /\ lastEvent' = Event("text", input, "next_step")
        /\ UNCHANGED <<now, content, mvars>>
        /\ screen' = Untracked

\* edit_case, WAITING_LEARNINGS: updateExistingCase, clearUserState
EditCaseFinishText(u, input, R) ==
    LET st == userStates[u]
        st1 == [st EXCEPT !.data.learnings = EditValue(st, 10, input)]
        us1 == [userStates EXCEPT ![u] = st1]
    IN  /\ st.present /\ st.command = "edit_case"
        /\ st.currentStep = EDIT_CASE_STATES[10]
        /\ \E okGet, okBackup, okUpdate \in BOOLEAN, r \in R[FALSE] :
              LET cs == PersistCalls(content, updateExistingCase(content, st1.data),
                                     okGet, okBackup, okUpdate)
              IN  /\ calls' = cs
                  /\ content' = RemoteAfter(content, cs)
                  /\ IF AllOk(cs)
                     THEN /\ userStates' =
                                clearUserState(updateMenuMessage(us1, u, r.messageId, now), u)
                          /\ chat' = r.ops
                          /\ rendered' = r
                          /\ lastEvent' = Event("text", input, "updated")
                     ELSE /\ userStates' = us1
                          /\ chat' = <<ChatOp("report", TRUE)>>
                          /\ rendered' = NoRender
                          /\ lastEvent' = Event("text", input, "error")
        /\ UNCHANGED <<now, mvars>>
        /\ screen' = Untracked

\* handleConversation returns false: no state, no command, an unknown command,
\* or edit_case at WAITING_CASE_ID (no case of the switch matches)
UnhandledText(u, input) ==
    LET st == userStates[u]
    IN  /\ \/ ~st.present
           \/ st.command \notin {"add_case", "edit_case"} \cup PromptCommands
           \/ st.command = "edit_case" /\ st.currentStep = EDIT_CASE_STATES[1]
        /\ lastEvent' = Event("text", input, "unhandled")
        /\ calls' = <<>>
        /\ chat' = <<>>
        /\ rendered' = NoRender
        /\ UNCHANGED <<userStates, now, content, mvars>>
        /\ screen' = Untracked

(***************************************************************************)
(* Callback tokens: config/constants.js NavigationHelpers                  *)
(***************************************************************************)
RECURSIVE Join(_)
\* [type, ...parts].join('_')
Join(parts) ==
    IF parts = <<>> THEN <<>>
    ELSE IF Len(parts) = 1 THEN Head(parts)
    ELSE Head(parts) \o <<"_">> \o Join(Tail(parts))

generateCallback(parts) == Join(parts)

\* callbackData.split('_'): type, action, data (action <<>> when missing)
parseCallback(t) ==
    LET parts == Split(t, "_")
    IN  [type |-> parts[1],
         action |-> IF Len(parts) >= 2 THEN parts[2] ELSE <<>>,
         data |-> SubSeq(parts, 3, Len(parts))]

Categories == {"content", "analytics", "system", "help"}

CategoryTitle(c) ==
    CASE c = "content" -> "Content Management"
      [] c = "analytics" -> "Analytics"
      [] c = "system" -> "System Tools"
      [] c = "help" -> "Help & Info"

\* utils/navigationManager.js getCategoryMenu: menuState of a category menu
CategoryState(c) ==
    CASE c = "content" -> "content_category"
      [] c = "analytics" -> "analytics_category"
      [] c = "system" -> "system_category"
      [] c = "help" -> "help_category"

Tok(words) == generateCallback([i \in 1..Len(words) |-> <<words[i]>>])

\* nav_* buttons the menus carry
NavTokens ==
    {Tok(<<"nav", "main">>), Tok(<<"nav", "back">>)}
    \cup {Tok(<<"nav", c>>) : c \in Categories}
    \cup {Tok(<<"nav", "content", "list">>), Tok(<<"nav", "content", "create">>),
          Tok(<<"nav", "analytics", "view">>), Tok(<<"nav", "system", "status">>)}

\* conf_* buttons: confirmation menus and the success menu of a wizard
ConfTokens ==
    {Tok(<<"conf", "content", "create", "confirm">>)}
    \cup {generateCallback(<<<<"conf">>, <<"content">>, <<"edit">>, c>>) : c \in CaseIds}
    \cup {generateCallback(<<<<"conf">>, <<"content">>, <<"preview">>, c>>) : c \in CaseIds}

\* act_* buttons: category menus and the wizard progress menu
ActTokens ==
    {Tok(<<"act", "content", "create">>), Tok(<<"act", "content", "edit">>),
     Tok(<<"act", "content", "delete">>), Tok(<<"act", "content", "preview">>),
     Tok(<<"act", "content", "list">>), Tok(<<"act", "system", "rollback">>),
     Tok(<<"act", "system", "cancel">>), Tok(<<"act", "help", "about">>),
     Tok(<<"act", "cancel">>), Tok(<<"act", "skip">>)}

\* utils/navigationManager.js getMainMenu: the callbacks of its keyboard
getMainMenu ==
    <<Tok(<<"nav", "content">>), Tok(<<"nav", "analytics">>),
      Tok(<<"nav", "system">>), Tok(<<"nav", "help">>)>>

\* a faulty category keyboard without the button back to the main menu
getCategoryMenuWithoutBack(c) ==
    IF c = "content"
    THEN <<Tok(<<"act", c, "create">>), Tok(<<"act", c, "edit">>)>>
    ELSE <<Tok(<<"act", c, "status">>)>>

\* getCategoryMenu: one act button per action of the category, in the order
\* of the constants, then the button back to the main menu
getCategoryMenu(c) ==
    LET actions ==
            CASE c = "content" -> <<"create", "edit", "delete", "list", "preview">>
              [] c = "analytics" -> <<"view", "recent", "test", "start", "stop", "refresh">>
              [] c = "system" -> <<"status", "history", "download", "rollback", "cancel">>
              [] c = "help" -> <<"commands", "guide", "support", "about">>
    IN  [i \in 1..Len(actions) |-> Tok(<<"act", c, actions[i]>>)]
        \o <<Tok(<<"nav", "main">>)>>

\* the keyboard handleBackNavigation renders: the menu of the state that
\* navigateBack returns, the main menu when it returns null
BackMenu(us, u) ==
    IF navigateBackIsNull(us, u) THEN getMainMenu
    ELSE LET previous ==
                 TitleToState(Last(Front(getNavigationContext(us, u).menuHistory)))
         IN  IF \E c \in Categories : CategoryState(c) = previous
             THEN getCategoryMenu(CHOOSE c \in Categories : CategoryState(c) = previous)
             ELSE getMainMenu

\* the keyboard of the menu handleNavigationCallback renders last (<<>> for
\* the loading, confirmation and result menus of category actions)
NavigationMenu(us, u, token) ==
    LET parsed == parseCallback(token)
        us1 == IF ~HasNavigation(us, u) THEN initUserState(us, u, 0) ELSE us
    IN  CASE parsed.action = <<"main">> -> getMainMenu
          [] parsed.action = <<"back">> -> BackMenu(us1, u)
          [] parsed.action \in {<<c>> : c \in Categories} ->
                getCategoryMenu(parsed.action[1])
          [] OTHER -> <<>>

\* commands/system.js handleStart
CmdStart(u, R) ==
    \E r \in R[FALSE] :
        /\ userStates' =
              updateMenuMessage(
                  navigateToMenu(initUserState(userStates, u, now), u,
                                 MAIN_MENU, MainMenuTitle, NoMessage, now),
                  u, r.messageId, now)
        /\ chat' = r.ops
        /\ rendered' = [r EXCEPT !.buttons = getMainMenu]
        /\ calls' = <<>>
        /\ lastEvent' = Event("/start", <<>>, "menu")
        /\ UNCHANGED <<now, content, mvars>>
        /\ screen' = ScreenAfter(screen, <<>>, rendered')

(***************************************************************************)
(* handlers/navigation.js NavigationHandler, applied to the map us.        *)
(* mid is the outcome of the handler's last render.                        *)
(***************************************************************************)
handleMainMenuNavigation(us, u, mid, t) ==
    updateMenuMessage(
        navigateToMenu(initUserState(clearUserState(us, u), u, t), u,
                       MAIN_MENU, MainMenuTitle, NoMessage, t),
        u, mid, t)

handleBackNavigation(us, u, mid, t) ==
    IF navigateBackIsNull(us, u)
    THEN handleMainMenuNavigation(us, u, mid, t)
    ELSE updateMenuMessage(navigateBack(us, u, t), u, mid, t)

handleCategoryNavigation(us, u, categoryId, mid, t) ==
    updateMenuMessage(
        navigateToMenu(us, u, CategoryState(categoryId), CategoryTitle(categoryId),
                       NoMessage, t),
        u, mid, t)

\* executeContentAction / executeAction: loading menus are rendered, then the
\* command runs.  From a button ctx.message is undefined, so handleEditCase
\* and handleDeleteCase throw before touching the state; handleAddCase finds
\* the state created by the renders and refuses.
WorkflowTitle(action) ==
    CASE action = <<"create">> -> "Create Case"
      [] action = <<"edit">> -> "Edit Case"
      [] action = <<"delete">> -> "Delete Case"
      [] OTHER -> ""

executeAction(us, u, category, action, mid, t) ==
    LET loading == updateMenuMessage(us, u, mid, t)
    IN  IF category = <<"content">> /\ WorkflowTitle(action) # ""
        THEN LET pushed == navigateToMenu(loading, u, "active_workflow",
                                          WorkflowTitle(action), NoMessage, t)
             IN  IF action = <<"create">>
                 THEN handleAddCase(pushed, u, t)
                 ELSE updateMenuMessage(pushed, u, mid, t)
        ELSE updateMenuMessage(loading, u, mid, t)

\* executeConfirmedAction: clearUserState, then the action.  extra is
\* parsed.data.slice(2).  For edit with extra data executeEditAction assigns
\* ctx.message and calls handleEditCase with the case id extra[0]; whether the
\* framework's context accepts the assignment is ctxWritable, and when it does
\* not the error menu is rendered.  Delete and preview only reply.
executeConfirmedAction(us, u, category, action, extra, doc, okGet, ctxWritable, mid, t) ==
    LET cleared == clearUserState(us, u)
    IN  IF action = <<"edit">> /\ extra # <<>>
        THEN IF ctxWritable
             THEN handleEditCase(cleared, u, extra[1], doc, okGet, t)
             ELSE updateMenuMessage(cleared, u, mid, t)
        ELSE IF action \in {<<"delete">>, <<"preview">>} /\ extra # <<>>
        THEN IF ctxWritable THEN cleared ELSE updateMenuMessage(cleared, u, mid, t)
        ELSE executeAction(cleared, u, category, action, mid, t)

\* getActionConfirmationMenu is only rendered: no state change besides the id
handleCategoryActionNavigation(us, u, parsed, mid, t) ==
    IF isInActiveWorkflow(us, u)
    THEN updateMenuMessage(us, u, mid, t)
    ELSE executeAction(us, u,
                       IF Len(parsed.data) >= 1 THEN parsed.data[1] ELSE <<>>,
                       IF Len(parsed.data) >= 2 THEN parsed.data[2] ELSE <<>>,
                       mid, t)

\* handleNavigationCallback after answerCallbackQuery succeeded
handleNavigationCallback(us, u, token, mid, t) ==
    LET parsed == parseCallback(token)
        us1 == IF ~HasNavigation(us, u) THEN initUserState(us, u, t) ELSE us
    IN  CASE parsed.action = <<"main">> -> handleMainMenuNavigation(us1, u, mid, t)
          [] parsed.action = <<"back">> -> handleBackNavigation(us1, u, mid, t)
          [] parsed.action \in {<<c>> : c \in Categories} ->
                handleCategoryNavigation(us1, u, parsed.action[1], mid, t)
          [] OTHER -> handleCategoryActionNavigation(us1, u, parsed, mid, t)

\* the token reaches executeConfirmedAction
IsConfirm(token) ==
    LET d == parseCallback(token).data
    IN  Len(d) >= 3 /\ d[3] = <<"confirm">>

\* handleConfirmationCallback after answerCallbackQuery succeeded:
\* [category, action, confirmType] = parsed.data
handleConfirmationCallback(us, u, token, doc, okGet, ctxWritable, mid, t) ==
    LET d == parseCallback(token).data
    IN  IF IsConfirm(token)
        THEN executeConfirmedAction(us, u, d[1], d[2], SubSeq(d, 3, Len(d)),
                                    doc, okGet, ctxWritable, mid, t)
        ELSE handleBackNavigation(us, u, mid, t)

\* a faulty error menu without the retry button
getErrorMenuWithoutRetry(us, u, retryCallback) ==
    (IF HasNavigation(us, u) /\ getNavigationContext(us, u).currentMenu # MAIN_MENU
     THEN <<Tok(<<"nav", "back">>)>> ELSE <<>>)
    \o <<Tok(<<"nav", "main">>)>>

\* utils/navigationManager.js getErrorMenu: the callbacks of its keyboard;
\* retryCallback is <<>> when the option is not given
getErrorMenu(us, u, retryCallback) ==
    (IF retryCallback # <<>> THEN <<retryCallback>> ELSE <<>>)
    \o (IF HasNavigation(us, u) /\ getNavigationContext(us, u).currentMenu # MAIN_MENU
        THEN <<Tok(<<"nav", "back">>)>> ELSE <<>>)
    \o <<Tok(<<"nav", "main">>)>>

\* the error menu handleNavigationError renders
NavigationErrorMenu(us, u) == getErrorMenu(us, u, generateCallback(<<<<"nav">>, <<"main">>>>))

\* handleNavigationError: an error menu is rendered
handleNavigationError(us, u, mid, t) == updateMenuMessage(us, u, mid, t)

(***************************************************************************)
(* Button presses.  okAnswer is the outcome of answerCallbackQuery; when   *)
(* it throws the handler's catch renders the navigation error menu.        *)
(***************************************************************************)
\* answerCallbackQuery throws: the catch of the callback handler renders the
\* navigation error menu (the token is never looked at)
CallbackError(u, R) ==
    \E r \in R[TRUE] :
        /\ userStates' = handleNavigationError(userStates, u, r.messageId, now)
        /\ chat' = <<ChatOp("answer", FALSE)>> \o r.ops
        /\ rendered' = [r EXCEPT !.buttons = NavigationErrorMenu(userStates, u)]
        /\ lastEvent' = Event("callback", <<>>, "error")
        /\ calls' = <<>>
        /\ UNCHANGED <<now, content, mvars>>
        /\ screen' = Untracked

NavCallback(u, token, R) ==
    /\ \E r \in R[TRUE], pressed \in PressedKeyboards(screen, token) :
          /\ userStates' = handleNavigationCallback(userStates, u, token,
                                                    r.messageId, now)
          /\ chat' = <<ChatOp("answer", TRUE)>> \o r.ops
          /\ rendered' = [r EXCEPT !.buttons = NavigationMenu(userStates, u, token)]
          /\ lastEvent' = Event("callback", <<"nav">>, "routed")
          /\ calls' = <<>>
          /\ UNCHANGED <<now, content, mvars>>
          /\ screen' = ScreenAfter(screen, pressed, rendered')

ConfCallback(u, token, R) ==
    /\ \E r \in R[TRUE], okGet, ctxWritable \in {TRUE} \cup {~IsConfirm(token)} :
          /\ userStates' = handleConfirmationCallback(userStates, u, token, content,
                                                      okGet, ctxWritable, r.messageId, now)
          /\ chat' = <<ChatOp("answer", TRUE)>> \o r.ops
          /\ rendered' = [r EXCEPT !.buttons = IF IsConfirm(token) THEN <<>>
                                                ELSE BackMenu(userStates, u)]
          /\ lastEvent' = Event("callback", token, "routed")
          /\ calls' = <<>>
          /\ UNCHANGED <<now, content, mvars>>
          /\ screen' = Untracked

\* handlers/actionHandlers.js create*Handler: reply, then initUserState and
\* updateUserState with the prompt command; a failed reply throws first
PromptHandler(us, u, command, step, okReply, t) ==
    IF ~okReply THEN us
    ELSE updateUserState(initUserState(us, u, t), u, command, step, EmptyData, TRUE)

\* getActionHandler: the handler key 'category_action', <<>> when none
getActionHandler(token) ==
    LET parts == Split(token, "_")
    IN  IF Len(parts) < 3 \/ parts[1] # <<"act">> THEN <<>>
        ELSE <<parts[2][1], parts[3][1]>>

\* executeActionHandler: the state after the mapped handler ran
executeActionHandler(us, u, token, okReply, t) ==
    LET key == getActionHandler(token)
    IN  CASE key = <<"content", "create">> -> handleAddCase(us, u, t)
          [] key = <<"content", "edit">> ->
                PromptHandler(us, u, "edit_case_prompt", "waiting_case_id", okReply, t)
          [] key = <<"content", "delete">> ->
                PromptHandler(us, u, "delete_case_prompt", "waiting_case_id", okReply, t)
          [] key = <<"content", "preview">> ->
                PromptHandler(us, u, "preview_case_prompt", "waiting_case_id", okReply, t)
          [] key = <<"system", "rollback">> ->
                PromptHandler(us, u, "rollback_prompt", "waiting_version", okReply, t)
          [] key = <<"system", "cancel">> -> clearUserState(us, u)
          [] OTHER -> us

ActOutcome(token) ==
    IF getActionHandler(token) = <<>> THEN "not_implemented" ELSE "executed"

\* the handler replies before it writes the state (prompt handlers only)
RepliesFirst(token) ==
    getActionHandler(token) \in {<<"content", "edit">>, <<"content", "delete">>,
                                 <<"content", "preview">>, <<"system", "rollback">>}

\* handleActionCallback: answerCallbackQuery, then executeActionHandler.  The
\* mapped handler replies (okReply); when it throws, executeActionHandler's
\* catch replies with the error (okReport), and when that reply or the "not
\* implemented" reply throws, the callback handler's catch renders the
\* navigation error menu.
ActCallback(u, token, R) ==
    LET mapped == getActionHandler(token) # <<>>
    IN  \E okReply, okReport \in BOOLEAN, r \in R[TRUE] \cup {NoRender} :
          LET reported == mapped /\ ~okReply
              escalated == (~mapped /\ ~okReply) \/ (reported /\ ~okReport)
              us1 == executeActionHandler(userStates, u, token, okReply, now)
          IN  /\ okReport \/ reported
              /\ (r = NoRender) <=> ~escalated
              /\ userStates' = IF escalated
                               THEN handleNavigationError(us1, u, r.messageId, now)
                               ELSE us1
              /\ chat' = <<ChatOp("answer", TRUE), ChatOp("reply", okReply)>>
                         \o (IF reported THEN <<ChatOp("report", okReport)>> ELSE <<>>)
                         \o r.ops
              /\ rendered' = IF escalated
                             THEN [r EXCEPT !.buttons = NavigationErrorMenu(us1, u)]
                             ELSE r
              /\ lastEvent' = Event("callback", <<"act">>,
                                    IF okReply THEN ActOutcome(token) ELSE "reply_failed")
              /\ calls' = <<>>
              /\ UNCHANGED <<now, content, mvars>>
              /\ screen' = Untracked

\* page_* tokens
PageTokens == {Tok(<<"page", "cases", "2">>)}

\* handlePaginationCallback: answerCallbackQuery, then handlePaginatedContent
\* renders the error menu "Pagination not yet implemented"
PageCallback(u, token, R) ==
    \E r \in R[TRUE] :
        /\ userStates' = updateMenuMessage(userStates, u, r.messageId, now)
        /\ chat' = <<ChatOp("answer", TRUE)>> \o r.ops
        /\ rendered' = [r EXCEPT !.buttons = getErrorMenu(userStates, u, <<>>)]
        /\ lastEvent' = Event("callback", token, "page")
        /\ calls' = <<>>
        /\ UNCHANGED <<now, content, mvars>>
        /\ screen' = Untracked

\* first word of a text: text.split(' ')[0]
FirstWord(t) == Head(Split(t, " "))

\* parseInt(text) is a positive integer
NumberWords == {"1", "2"}

IsVersionNumber(t) == t # <<>> /\ Head(t) \in NumberWords

\* a faulty edit prompt that calls the command without clearing the state
handleEditCasePromptKeepingState(us, u, answer, doc, fakeCtxWorks, okGet, t) ==
    IF fakeCtxWorks THEN handleEditCase(us, u, FirstWord(answer), doc, okGet, t)
    ELSE us

\* handleEditCasePrompt on a non-empty answer: clearUserState, then
\* handleEditCase on the text '/edit_case <answer>', whose first argument is
\* the first word of the answer
handleEditCasePrompt(us, u, answer, doc, fakeCtxWorks, okGet, t) ==
    IF fakeCtxWorks
    THEN handleEditCase(clearUserState(us, u), u, FirstWord(answer), doc, okGet, t)
    ELSE clearUserState(us, u)

\* handlers/conversations.js handle*Prompt: the answer is trimmed; an empty
\* one re-prompts; otherwise the prompt state is cleared and the command is
\* called with a copy of ctx.  Whether that copy still carries ctx.from and
\* ctx.reply is decided by the bot framework (fakeCtxWorks).
PromptText(u, input) ==
    LET st == userStates[u]
        answer == Trim(input)
        valid == IF st.command = "rollback_prompt" THEN IsVersionNumber(answer)
                 ELSE answer # <<>>
        cleared == clearUserState(userStates, u)
    IN  /\ st.present /\ st.command \in PromptCommands
        /\ \E fakeCtxWorks, okGet \in BOOLEAN :
              /\ userStates' =
                    IF ~valid THEN userStates
                    ELSE IF st.command = "edit_case_prompt"
                         THEN handleEditCasePrompt(userStates, u, answer, content,
                                                   fakeCtxWorks, okGet, now)
                         ELSE cleared
              /\ calls' =
                    IF valid /\ st.command = "edit_case_prompt" /\ fakeCtxWorks
                    THEN EditCaseCalls(cleared, u, FirstWord(answer), content, okGet)
                    ELSE <<>>
              /\ lastEvent' = Event("text", input, IF valid THEN "delegated" ELSE "reprompt")
              /\ chat' = <<>>
              /\ rendered' = NoRender
        /\ UNCHANGED <<now, content, mvars>>
        /\ screen' = Untracked

(***************************************************************************)
(* analytics.js AnalyticsMonitor.  A check is started by the /analytics    *)
(* command (commands/analytics.js handleAnalytics); the bot handles one    *)
(* update at a time, so no other command runs while the check awaits, but  *)
(* the clock and the analytics API move on between its awaits.             *)
(***************************************************************************)
\* a build in which the name is imported from config/constants and set
ENABLE_ANALYTICS_Imported == TRUE

\* analytics.js line 45 reads ENABLE_ANALYTICS; the module neither declares
\* nor imports that name, so evaluating it throws a ReferenceError
ENABLE_ANALYTICS_IsDeclared == FALSE

\* entries kept by the cleanup
KeepLast == 1000

\* errors tolerated before the admin is warned
ErrorThreshold == 5

\* a faulty cleanup that keeps the oldest entries
cleanupKeepOldest(ids) ==
    IF Len(ids) > KeepLast THEN SubSeq(ids, 1, KeepLast) ELSE ids

\* Array.from(set).slice(-1000) when size > 1000
cleanup(ids) ==
    IF Len(ids) > KeepLast THEN SubSeq(ids, Len(ids) - KeepLast + 1, Len(ids))
    ELSE ids

\* services/matomo.js getRecentVisits: ts >= since && ts <= until
getRecentVisits(m, since, until) ==
    {v \in VisitIds : m[v].present /\ m[v].ts >= since /\ m[v].ts <= until}

\* the orders in which the API may list a set of visits
Orders(S) ==
    {o \in UNION {[1..n -> S] : n \in {Cardinality(S)}} :
        \A i, j \in 1..Cardinality(S) : i # j => o[i] # o[j]}

\* a faulty catch that also moves the window on
catchErrorLosingWindow(st, okWarn) ==
    LET n == st.errors + 1
    IN  [st EXCEPT !.errors = IF n > ErrorThreshold /\ okWarn THEN 0 ELSE n,
                   !.lastCheckTime = @ + Hour]

\* a faulty catch that resets the counter whether or not the warning went out
catchErrorAlwaysResetting(st, okWarn) ==
    LET n == st.errors + 1
    IN  [st EXCEPT !.errors = IF n > ErrorThreshold THEN 0 ELSE n]

\* the catch of checkVisits: errors++, and above the threshold a warning is
\* sent and the counter reset when the warning went out
catchError(st, okWarn) ==
    LET n == st.errors + 1
    IN  [st EXCEPT !.errors = IF n > ErrorThreshold /\ okWarn THEN 0 ELSE n]

\* a faulty test that never recognises a visit
alreadyNotifiedNever(ids, idVisit) == FALSE

\* this.notifiedVisitIds.has(visit.idVisit)
alreadyNotified(ids, idVisit) == Has(ids, idVisit)

\* a faulty send that counts a failed delivery as an error of the check
afterSendCountingErrors(st, okSend) ==
    IF okSend THEN [st EXCEPT !.notificationsSent = @ + 1]
    ELSE [st EXCEPT !.errors = @ + 1]

\* the try/catch around sendMessage: count a delivery, log a failure
afterSend(st, okSend) ==
    IF okSend THEN [st EXCEPT !.notificationsSent = @ + 1] ELSE st

\* how the catch of checkVisits ended: below the threshold nothing is sent;
\* above it the warning to the admin is delivered or its send throws
CatchOutcome(st, okWarn) ==
    IF st.errors + 1 <= ErrorThreshold THEN "failed"
    ELSE IF okWarn THEN "failed_warned" ELSE "failed_warning_lost"

MonitorIdle == chk.pc = "idle"

\* a faulty start() that sets the interval before it tests the flag
MonitorStartTimerFirst ==
    /\ MonitorIdle
    /\ checkTimer' = TRUE
    /\ lastEvent' = Event("/analytics_start", <<>>, "error")
    /\ UNCHANGED <<uvars, suspended, now, isRunning, chk, stats, inFlight,
                   notifiedVisitIds, matomo, attempts, fetched, forgotten>>

\* start(): throws at line 45 before anything is changed
MonitorStart ==
    /\ MonitorIdle
    /\ IF ~ENABLE_ANALYTICS_IsDeclared
       THEN /\ lastEvent' = Event("/analytics_start", <<>>, "error")
            /\ UNCHANGED <<isRunning, checkTimer, chk, stats, inFlight>>
       ELSE IF isRunning
       THEN /\ lastEvent' = Event("/analytics_start", <<>>, "started")
            /\ UNCHANGED <<isRunning, checkTimer, chk, stats, inFlight>>
       ELSE /\ isRunning' = TRUE
            /\ checkTimer' = TRUE
            /\ chk' = [pc |-> "fetch", checkStartTime |-> now,
                       since |-> stats.lastCheckTime, visits |-> <<>>,
                       newVisitsCount |-> 0]
            /\ stats' = [stats EXCEPT !.checksPerformed = @ + 1]
            /\ inFlight' = inFlight + 1
            /\ lastEvent' = Event("/analytics_start", <<>>, "started")
    /\ UNCHANGED <<uvars, suspended, now, notifiedVisitIds, matomo, attempts, fetched, forgotten>>

\* a faulty stop() that also abandons the check in flight
stopAbortingCheck(m) ==
    [m EXCEPT !.checkTimer = FALSE, !.isRunning = FALSE, !.chk = IdleCheck]

\* stop() on the monitor m (isRunning, checkTimer and the check in flight):
\* nothing when not running, else clearInterval and isRunning = false
stop(m) ==
    IF ~m.isRunning THEN m
    ELSE [m EXCEPT !.checkTimer = FALSE, !.isRunning = FALSE]

\* SIGINT or SIGTERM (process.once): analyticsMonitor.stop(), then bot.stop();
\* the signal may come while a check awaits, and the event records where
\* the check was
SignalStop ==
    /\ lastEvent.op # "signal"
    /\ LET m == stop([isRunning |-> isRunning, checkTimer |-> checkTimer,
                      chk |-> chk])
       IN  /\ isRunning' = m.isRunning
           /\ checkTimer' = m.checkTimer
           /\ chk' = m.chk
    /\ lastEvent' = Event("signal", <<chk.pc>>, "stopping")
    /\ UNCHANGED <<uvars, suspended, now, stats, notifiedVisitIds, matomo, attempts,
                   fetched, forgotten, inFlight>>

\* stop()
MonitorStop ==
    /\ MonitorIdle
    /\ IF ~isRunning
       THEN UNCHANGED <<isRunning, checkTimer>>
       ELSE /\ checkTimer' = FALSE
            /\ isRunning' = FALSE
    /\ lastEvent' = Event("/analytics_stop", <<>>, "stopped")
    /\ UNCHANGED <<uvars, suspended, now, stats, notifiedVisitIds, matomo, chk, attempts,
                   fetched, forgotten, inFlight>>

\* clearHistory()
ClearHistory ==
    /\ MonitorIdle
    /\ notifiedVisitIds' = <<>>
    /\ forgotten' = forgotten \cup Range(notifiedVisitIds)
    /\ lastEvent' = Event("/analytics_clear", <<>>, "cleared")
    /\ UNCHANGED <<uvars, suspended, now, isRunning, checkTimer, stats, matomo, chk,
                   attempts, fetched, inFlight>>

\* checkVisits up to the await of the fetch (lines 180-191), for at most
\* limit runs
CheckBeginUpTo(limit) ==
    /\ MonitorIdle
    /\ stats.checksPerformed < limit
    /\ chk' = [pc |-> "fetch", checkStartTime |-> now,
               since |-> stats.lastCheckTime, visits |-> <<>>,
               newVisitsCount |-> 0]
    /\ stats' = [stats EXCEPT !.checksPerformed = @ + 1]
    /\ inFlight' = inFlight + 1
    /\ lastEvent' = Event("/analytics", <<>>, "checking")
    /\ UNCHANGED <<uvars, suspended, now, isRunning, checkTimer, notifiedVisitIds, matomo,
                   attempts, fetched, forgotten>>

CheckBegin == CheckBeginUpTo(MaxChecks)

\* the fetch returns (line 205 advances lastCheckTime) or throws (catch)
CheckFetch ==
    /\ chk.pc = "fetch"
    /\ \/ \E order \in Orders(getRecentVisits(matomo, chk.since, chk.checkStartTime)) :
             /\ chk' = [chk EXCEPT !.pc = "content", !.visits = order]
             /\ stats' = [stats EXCEPT !.lastCheckTime = chk.checkStartTime]
             /\ fetched' = [v \in VisitIds |->
                               IF Has(order, v) /\ fetched[v] < 2
                               THEN fetched[v] + 1 ELSE fetched[v]]
             /\ UNCHANGED <<lastEvent, inFlight>>
       \/ \E okWarn \in BOOLEAN :
             /\ chk' = IdleCheck
             /\ inFlight' = inFlight - 1
             /\ stats' = catchError(stats, okWarn)
             /\ lastEvent' = Event("check", <<>>, CatchOutcome(stats, okWarn))
             /\ UNCHANGED fetched
    /\ UNCHANGED <<uvars, suspended, now, isRunning, checkTimer, notifiedVisitIds,
                   matomo, attempts, forgotten>>

\* await getContent() (line 208) resolves or throws (catch)
CheckContent ==
    /\ chk.pc = "content"
    /\ \/ /\ chk' = [chk EXCEPT !.pc = "loop"]
          /\ UNCHANGED <<stats, lastEvent, inFlight>>
       \/ \E okWarn \in BOOLEAN :
             /\ chk' = IdleCheck
             /\ inFlight' = inFlight - 1
             /\ stats' = catchError(stats, okWarn)
             /\ lastEvent' = Event("check", <<>>, CatchOutcome(stats, okWarn))
    /\ UNCHANGED <<uvars, suspended, now, isRunning, checkTimer, notifiedVisitIds,
                   matomo, attempts, fetched, forgotten>>

\* a faulty iteration that tests the id and goes on to the send without
\* inserting it
CheckVisitWithoutMark ==
    /\ chk.pc = "loop"
    /\ chk' = IF chk.visits = <<>> THEN [chk EXCEPT !.pc = "cleanup"]
              ELSE IF alreadyNotified(notifiedVisitIds, Head(chk.visits))
              THEN [chk EXCEPT !.visits = Tail(@)]
              ELSE [chk EXCEPT !.pc = "send", !.newVisitsCount = @ + 1]
    /\ UNCHANGED <<uvars, suspended, now, lastEvent, isRunning, checkTimer, stats,
                   matomo, notifiedVisitIds, attempts, fetched, forgotten, inFlight>>

\* one iteration of the loop up to the send (lines 216-290): skip a known
\* visit; otherwise mark it, and unless it has a code and no pages go on to
\* send its notification
CheckVisit ==
    /\ chk.pc = "loop"
    /\ IF chk.visits = <<>>
       THEN /\ chk' = [chk EXCEPT !.pc = "cleanup"]
            /\ UNCHANGED notifiedVisitIds
       ELSE LET v == Head(chk.visits)
            IN  IF alreadyNotified(notifiedVisitIds, v)
                THEN /\ chk' = [chk EXCEPT !.visits = Tail(@)]
                     /\ UNCHANGED notifiedVisitIds
                ELSE /\ notifiedVisitIds' = SetAdd(notifiedVisitIds, v)
                     /\ chk' = IF matomo[v].kind = "code_nopages"
                               THEN [chk EXCEPT !.visits = Tail(@),
                                                !.newVisitsCount = @ + 1]
                               ELSE [chk EXCEPT !.pc = "send",
                                                !.newVisitsCount = @ + 1]
    /\ UNCHANGED <<uvars, suspended, now, lastEvent, isRunning, checkTimer, stats, matomo,
                   attempts, fetched, forgotten, inFlight>>

\* bot.api.sendMessage for the visit at the head (lines 274-282, 332-346):
\* counted when it resolves, logged when it throws; the loop goes on
CheckSend ==
    /\ chk.pc = "send"
    /\ attempts' = [attempts EXCEPT ![Head(chk.visits)] = @ + 1]
    /\ \E okSend \in BOOLEAN : stats' = afterSend(stats, okSend)
    /\ chk' = [chk EXCEPT !.pc = "loop", !.visits = Tail(@)]
    /\ UNCHANGED <<uvars, suspended, now, lastEvent, isRunning, checkTimer, notifiedVisitIds,
                   matomo, fetched, forgotten, inFlight>>

\* lines 350-356, then the check is over
CheckCleanup ==
    /\ chk.pc = "cleanup"
    /\ notifiedVisitIds' = cleanup(notifiedVisitIds)
    /\ forgotten' = forgotten \cup (Range(notifiedVisitIds) \ Range(notifiedVisitIds'))
    /\ chk' = IdleCheck
    /\ inFlight' = inFlight - 1
    /\ UNCHANGED <<uvars, suspended, now, lastEvent, isRunning, checkTimer, stats, matomo,
                   attempts, fetched>>

\* the clock, up to limit; while the interval timer of start() is set
\* (analytics.js lines 64-66) its callback calls checkVisits, whatever else
\* is in flight: chk follows that call when no other is in flight, and a
\* call that overlaps another is counted and not followed
TickUpTo(limit) ==
    /\ now < limit
    /\ now' = now + 1
    /\ IF checkTimer
       THEN /\ inFlight' = inFlight + 1
            /\ stats' = [stats EXCEPT !.checksPerformed = @ + 1]
            /\ chk' = IF chk.pc = "idle"
                      THEN [pc |-> "fetch", checkStartTime |-> now',
                            since |-> stats.lastCheckTime, visits |-> <<>>,
                            newVisitsCount |-> 0]
                      ELSE chk
       ELSE UNCHANGED <<inFlight, stats, chk>>
    /\ UNCHANGED <<uvars, suspended, lastEvent, isRunning, checkTimer, notifiedVisitIds,
                   matomo, attempts, fetched, forgotten>>

Tick == TickUpTo(MaxTime)

\* stateManager.js line 232: setInterval(cleanupOldStates, 30 minutes)
Sweep ==
    /\ userStates' = cleanupOldStates(userStates, now, Hour)
    /\ lastEvent' = Event("sweep", <<>>, "done")
    /\ UNCHANGED <<now, content, calls, chat, rendered, screen, mvars>>

\* a visitor arrives on the site
VisitArrives(v, kind) ==
    /\ ~matomo[v].present
    /\ matomo' = [matomo EXCEPT ![v] = [present |-> TRUE, ts |-> now, kind |-> kind]]
    /\ UNCHANGED <<uvars, suspended, now, lastEvent, isRunning, checkTimer, stats,
                   notifiedVisitIds, chk, attempts, fetched, forgotten, inFlight>>

(***************************************************************************)
(* Specification Spec: every kind of update, with keyword answers only     *)
(* (/skip, /keep, case ids) and category menus nested up to MaxDepth.      *)
(***************************************************************************)
\* the user stops opening nested menus at MaxDepth entries
WithinDepth(u) == Len(userStates'[u].navigation.menuHistory) <= MaxDepth

Next ==
    \E u \in Users :
        \/ CmdStart(u, UniformRenders)
        \/ CmdCancel(u)
        \/ CmdAddCase(u)
        \/ \E c \in CaseIds \cup {<<>>, Demo} : CmdEditCase(u, c)
        \/ \E t \in {SKIP, ProjX, OldCase, BadId} : AddCaseIdText(u, t)
        \/ AddCaseStepText(u, SKIP, UniformRenders)
        \/ AddCaseFinishText(u, SKIP, UniformRenders)
        \/ EditCaseStepText(u, KEEP, UniformRenders)
        \/ EditCaseFinishText(u, KEEP, UniformRenders)
        \/ UnhandledText(u, SKIP)
        \/ \E t \in {Blank, OldCase, Demo, <<"2">>} : PromptText(u, t)
        \/ \E k \in NavTokens : NavCallback(u, k, UniformRenders) /\ WithinDepth(u)
        \/ \E k \in ConfTokens : ConfCallback(u, k, UniformRenders)
        \/ \E k \in ActTokens : ActCallback(u, k, UniformRenders)
        \/ \E k \in PageTokens : PageCallback(u, k, UniformRenders)
        \/ CallbackError(u, UniformRenders)

Spec == Init /\ [][Next]_vars

(***************************************************************************)
(* Specification SpecWizard: the two wizards driven by slash commands and  *)
(* text, with typed answers at the title, metrics and tags steps.          *)
(***************************************************************************)
\* the answers the user types at a step (besides /skip or /keep)
TypedAt(u, t) ==
    \/ t = Demo /\ userStates[u].currentStep \in
                       {ADD_CASE_STATES[2], EDIT_CASE_STATES[2], EDIT_CASE_STATES[4]}
    \/ t = ListText /\ userStates[u].currentStep \in
                       {ADD_CASE_STATES[5], EDIT_CASE_STATES[5]}

WizardNext ==
    \E u \in Users :
        \/ CmdCancel(u)
        \/ CmdAddCase(u)
        \/ \E c \in CaseIds \cup {<<>>, Demo} : CmdEditCase(u, c)
        \/ \E t \in {SKIP, ProjX, OldCase, BadId} : AddCaseIdText(u, t)
        \/ AddCaseStepText(u, SKIP, UniformRenders)
        \/ \E t \in {Demo, ListText} : TypedAt(u, t) /\ AddCaseStepText(u, t, UniformRenders)
        \/ AddCaseFinishText(u, SKIP, UniformRenders)
        \/ EditCaseStepText(u, KEEP, UniformRenders)
        \/ \E t \in {Demo, ListText} : TypedAt(u, t) /\ EditCaseStepText(u, t, UniformRenders)
        \/ EditCaseFinishText(u, KEEP, UniformRenders)
        \/ \E t \in {SKIP, OldCase} : UnhandledText(u, t)

SpecWizard == Init /\ [][WizardNext]_vars

(***************************************************************************)
(* Specification SpecRender: menus and buttons with every outcome of the   *)
(* chat API calls of a render, the add-case wizard reduced to /skip.       *)
(***************************************************************************)
RenderNext ==
    \E u \in Users :
        \/ CmdStart(u, RenderOutcomes)
        \/ CmdCancel(u)
        \/ CmdAddCase(u)
        \/ AddCaseIdText(u, ProjX)
        \/ AddCaseStepText(u, SKIP, RenderOutcomes)
        \/ AddCaseFinishText(u, SKIP, RenderOutcomes)
        \/ \E k \in {Tok(<<"nav", "main">>), Tok(<<"nav", "back">>),
                      Tok(<<"nav", "content">>)} :
              NavCallback(u, k, RenderOutcomes) /\ WithinDepth(u)
        \/ ConfCallback(u, Tok(<<"conf", "content", "create", "confirm">>), RenderOutcomes)
        \/ \E k \in {Tok(<<"act", "content", "create">>), Tok(<<"act", "content", "edit">>),
                      Tok(<<"act", "skip">>)} :
              ActCallback(u, k, RenderOutcomes)
        \/ \E k \in PageTokens : PageCallback(u, k, RenderOutcomes)
        \/ CallbackError(u, RenderOutcomes)

SpecRender == Init /\ [][RenderNext]_vars

(***************************************************************************)
(* Specification SpecMonitor: the analytics monitor, its commands, the     *)
(* clock and the visits.                                                   *)
(***************************************************************************)
MonitorNext ==
    \/ MonitorStart
    \/ MonitorStop
    \/ ClearHistory
    \/ CheckBegin
    \/ CheckFetch
    \/ CheckContent
    \/ CheckVisit
    \/ CheckSend
    \/ CheckCleanup
    \/ Tick
    \/ \E v \in VisitIds, k \in VisitKinds : VisitArrives(v, k)

SpecMonitor == Init /\ [][MonitorNext]_vars

(***************************************************************************)
(* Specification SpecStop: the monitor with the shutdown signal; once the  *)
(* signal came the bot takes no further update, and a check in flight goes *)
(* on.                                                                     *)
(***************************************************************************)
StopNext ==
    \/ SignalStop
    \/ /\ lastEvent.op # "signal"
       /\ \/ MonitorStart
          \/ MonitorStop
          \/ CheckBegin
    \/ CheckFetch
    \/ CheckContent
    \/ CheckVisit
    \/ CheckSend
    \/ CheckCleanup
    \/ Tick
    \/ \E v \in VisitIds, k \in {"anonymous", "code_pages"} : VisitArrives(v, k)

SpecStop == Init /\ [][StopNext]_vars

(***************************************************************************)
(* Specification SpecErrors: up to MaxFailingChecks forced checks in a     *)
(* row, each of which may fail at the fetch or at getContent, with one     *)
(* visit to notify.                                                        *)
(***************************************************************************)
ErrorsNext ==
    \/ CheckBeginUpTo(MaxFailingChecks)
    \/ CheckFetch
    \/ CheckContent
    \/ CheckVisit
    \/ CheckSend
    \/ CheckCleanup
    \/ VisitArrives(1, "anonymous")

SpecErrors == Init /\ [][ErrorsNext]_vars

(***************************************************************************)
(* Specification SpecSweep: menus, the first steps of the add-case wizard, *)
(* the clock and the periodic sweep of the user states.                    *)
(***************************************************************************)
SweepNext ==
    \/ TickUpTo(MaxSweepTime)
    \/ Sweep
    \/ \E u \in Users :
          \/ CmdStart(u, UniformRenders)
          \/ CmdAddCase(u)
          \/ AddCaseIdText(u, ProjX)
          \/ \E k \in {Tok(<<"nav", "main">>), Tok(<<"nav", "content">>)} :
                NavCallback(u, k, UniformRenders)
          \/ CallbackError(u, UniformRenders)

SpecSweep == Init /\ [][SweepNext]_vars

(***************************************************************************)
(* Specification SpecCleanup: the monitor after one check that marked      *)
(* KeepLast - 1 older visits, so that the next visits take the set over    *)
(* the limit.                                                              *)
(***************************************************************************)
OlderVisits == [i \in 1..(KeepLast - 1) |-> MaxVisits + i]

CleanupInit ==
    /\ userStates = [u \in Users |-> Absent]
    /\ now = 0
    /\ content = InitialContent
    /\ calls = <<>>
    /\ chat = <<>>
    /\ rendered = NoRender
    /\ screen = Untracked
    /\ lastEvent = Event("/analytics", <<>>, "checking")
    /\ isRunning = FALSE
    /\ checkTimer = FALSE
    /\ stats = [checksPerformed |-> 1, notificationsSent |-> 0,
                lastCheckTime |-> 0, errors |-> 0]
    /\ notifiedVisitIds = OlderVisits
    /\ matomo = [v \in VisitIds |-> NoVisit]
    /\ chk = IdleCheck
    /\ attempts = [v \in VisitIds |-> 0]
    /\ fetched = [v \in VisitIds |-> 0]
    /\ forgotten = {}
    /\ inFlight = 0
    /\ suspended = IdleCheck

CleanupNext ==
    \/ ClearHistory
    \/ CheckBegin
    \/ CheckFetch
    \/ CheckContent
    \/ CheckVisit
    \/ CheckSend
    \/ CheckCleanup
    \/ Tick
    \/ \E v \in VisitIds, k \in VisitKinds : VisitArrives(v, k)

SpecCleanup == CleanupInit /\ [][CleanupNext]_vars

(***************************************************************************)
(* Specification SpecOverlap: the monitor object when checkVisits is       *)
(* called while another call is in flight.  checkVisits has no guard of    *)
(* its own, so a caller that does not await it (forceCheck, the interval   *)
(* callback) starts a second call; each call runs from await to await, and *)
(* the event loop resumes either one.  chk is the call that runs next,     *)
(* suspended the other one.                                                *)
(***************************************************************************)
MaxOverlap == 2

\* checkVisits runs when overlapping calls are followed
MaxOverlapChecks == 2

\* the event loop resumes the other call
Resume ==
    /\ suspended.pc # "idle"
    /\ chk' = suspended
    /\ suspended' = chk
    /\ UNCHANGED <<uvars, now, lastEvent, isRunning, checkTimer, stats,
                   notifiedVisitIds, matomo, attempts, fetched, forgotten, inFlight>>

\* checkVisits is called while the call in chk waits at an await
CheckBeginOverlapping ==
    /\ chk.pc # "idle"
    /\ suspended.pc = "idle"
    /\ inFlight < MaxOverlap
    /\ stats.checksPerformed < MaxOverlapChecks
    /\ suspended' = chk
    /\ chk' = [pc |-> "fetch", checkStartTime |-> now,
               since |-> stats.lastCheckTime, visits |-> <<>>,
               newVisitsCount |-> 0]
    /\ stats' = [stats EXCEPT !.checksPerformed = @ + 1]
    /\ inFlight' = inFlight + 1
    /\ lastEvent' = Event("/analytics", <<>>, "checking")
    /\ UNCHANGED <<uvars, now, isRunning, checkTimer, notifiedVisitIds, matomo,
                   attempts, fetched, forgotten>>

OverlapNext ==
    \/ CheckBeginUpTo(MaxOverlapChecks)
    \/ CheckBeginOverlapping
    \/ Resume
    \/ CheckFetch
    \/ CheckContent
    \/ CheckVisit
    \/ CheckSend
    \/ CheckCleanup
    \/ Tick
    \/ \E v \in VisitIds, k \in {"anonymous", "code_pages"} : VisitArrives(v, k)

SpecOverlap == Init /\ [][OverlapNext]_vars

(***************************************************************************)
(* Menu navigation alone, with the chat's menu messages followed: /start   *)
(* and the nav buttons of the keyboards that are on screen.                *)
(***************************************************************************)
MaxMenus == 3

MaxMenuDepth == 4

\* the renders of a chat API that serves every call
ServedRenders ==
    [cb \in BOOLEAN |-> {r \in RenderOutcomes[cb] : \A i \in DOMAIN r.ops : r.ops[i].ok}]

DepthInit ==
    /\ userStates = [u \in Users |-> Absent]
    /\ now = 0
    /\ content = InitialContent
    /\ calls = <<>>
    /\ chat = <<>>
    /\ rendered = NoRender
    /\ screen = EmptyChat
    /\ lastEvent = Event("boot", <<>>, "ok")
    /\ MonitorInit

DepthNext ==
    \E u \in Users :
        \/ /\ BagCardinality(screen.menus) < MaxMenus
           /\ CmdStart(u, ServedRenders)
        \/ /\ \E token \in Range(getMainMenu) \cup {Tok(<<"nav", "main">>)} :
                  NavCallback(u, token, ServedRenders)
           /\ BagCardinality(screen'.menus) <= MaxMenus
           /\ Len(userStates'[u].navigation.menuHistory) <= MaxMenuDepth

SpecDepth == DepthInit /\ [][DepthNext]_vars

\* C33: whatever buttons of the bot's own menus are pressed, menuHistory
\* never holds more than 3 entries
C33_HistoryAtMostThree ==
    \A u \in Users :
        HasNavigation(userStates, u) =>
            Len(getNavigationContext(userStates, u).menuHistory) <= 3

(***************************************************************************)
(* Claims                                                                  *)
(***************************************************************************)
Unset(v) == v \in {"null", "undefined"}

\* C1: for every user with a state, after any sequence of navigateToMenu and
\* navigateBack calls, menuHistory and breadcrumbs have the same length, the
\* length is at least 1, and menuHistory[0] is 'Main Menu'.
C1_HistoryWellFormed ==
    \A u \in Users :
        userStates[u].present =>
            LET nav == userStates[u].navigation
            IN  /\ Len(nav.menuHistory) = Len(nav.breadcrumbs)
                /\ Len(nav.menuHistory) >= 1
                /\ nav.menuHistory[1] = MainMenuTitle

\* a menu was entered and left again: navigateBack popped down to the root
C1_Witness ==
    \E u \in Users :
        /\ userStates[u].present
        /\ userStates[u].navigation.lastAction = <<"navigate_back_to", MAIN_MENU>>
        /\ userStates[u].navigation.menuHistory = <<MainMenuTitle>>

\* C2: in every reachable user state command and currentStep are both unset
\* (null or undefined) or both set.
C2_CommandAndStepTogether ==
    \A u \in Users : Unset(userStates[u].command) <=> Unset(userStates[u].currentStep)

\* a wizard is in progress while a category menu is open on top of it
C2_Witness ==
    \E u \in Users :
        /\ userStates[u].command = "add_case"
        /\ userStates[u].currentStep = "waiting_desc"
        /\ Len(userStates[u].navigation.menuHistory) = 2

C4_MarkedBeforeSend ==
    [][/\ chk.pc = "send" => Has(notifiedVisitIds, Head(chk.visits))
       /\ attempts' # attempts =>
              /\ chk.pc = "send"
              /\ notifiedVisitIds' = notifiedVisitIds
              /\ Has(notifiedVisitIds', Head(chk.visits))
              /\ stats'.errors = stats.errors
              /\ chk'.pc = "loop"
              /\ chk'.visits = Tail(chk.visits)
              /\ (stats'.notificationsSent = stats.notificationsSent
                    \/ stats'.notificationsSent = stats.notificationsSent + 1)]_vars

\* the first visit's send failed and the second visit of the same batch is
\* about to be sent
C4_Witness ==
    /\ stats.checksPerformed = 1
    /\ chk.pc = "send"
    /\ Len(chk.visits) = 1
    /\ stats.notificationsSent = 0
    /\ stats.errors = 0
    /\ \E v \in VisitIds :
          /\ v # Head(chk.visits)
          /\ attempts[v] = 1
          /\ Has(notifiedVisitIds, v)

C6_TwoStateMachine ==
    [][/\ MonitorStart =>
              IF isRunning
              THEN UNCHANGED <<isRunning, checkTimer, chk, stats>>
              ELSE isRunning' = TRUE /\ checkTimer' = TRUE /\ chk'.pc = "fetch"
       /\ MonitorStop =>
              /\ isRunning' = FALSE
              /\ checkTimer' = FALSE
              /\ UNCHANGED <<chk, stats>>]_vars

\* C7: the cleanup of a check leaves at most KeepLast ids, and when more
\* were held it leaves exactly the KeepLast most recently added, in order
C7_KeepsMostRecent ==
    [][(chk.pc = "cleanup" /\ chk'.pc = "idle") =>
          /\ Len(notifiedVisitIds') <= KeepLast
          /\ Len(notifiedVisitIds) > KeepLast =>
                /\ Len(notifiedVisitIds') = KeepLast
                /\ \A i \in 1..KeepLast :
                      notifiedVisitIds'[i] =
                          notifiedVisitIds[Len(notifiedVisitIds) - KeepLast + i]
          /\ Len(notifiedVisitIds) <= KeepLast =>
                notifiedVisitIds' = notifiedVisitIds]_vars

\* both new visits were marked after the older ones and the cleanup dropped
\* the oldest id
C7_Witness ==
    /\ MonitorIdle
    /\ Len(notifiedVisitIds) = KeepLast
    /\ OlderVisits[1] \in forgotten
    /\ ~Has(notifiedVisitIds, OlderVisits[1])
    /\ notifiedVisitIds[KeepLast] \in VisitIds
    /\ notifiedVisitIds[KeepLast - 1] \in VisitIds

\* C8: every updateContent call of a handler comes after a getContent call
\* that resolved and a createBackup call that resolved on the fetched
\* document, in that order
C8_BackupBeforeUpdate ==
    \A i \in 1..Len(calls) :
        calls[i].op = "updateContent" =>
            /\ i = 3
            /\ calls[1] = Call("getContent", TRUE, calls[1].doc)
            /\ calls[2] = Call("createBackup", TRUE, calls[1].doc)

\* an edit-case wizard completed: fetch, backup, update
C8_Witness ==
    /\ lastEvent.out = "updated"
    /\ Len(calls) = 3
    /\ calls[2].op = "createBackup"
    /\ calls[3].op = "updateContent"
    /\ calls[3].ok

\* the entry the add-case wizard is said to write for proj_x
DemoStudy ==
    [present |-> TRUE, title |-> Str(Demo), desc |-> Null, metrics |-> Null,
     tags |-> Arr(<<>>)]

\* C9: completing add-case with id proj_x, title Demo and /skip for every
\* other field writes case_studies.proj_x = {title: Demo, desc: null,
\* metrics: null, tags: []}
C9_SkippedFieldsPersistAsNull ==
    [][\A u \in Users :
          (/\ userStates[u].present
           /\ userStates[u].command = "add_case"
           /\ userStates[u].currentStep = ADD_CASE_STATES[10]
           /\ userStates[u].data.id = Str(ProjX)
           /\ userStates[u].data.title = Str(Demo)
           /\ \A f \in {"desc", "metrics", "challenge", "solution"} :
                  userStates[u].data[f] = Null
           /\ \A f \in ArrayFields : userStates[u].data[f] = Arr(<<>>)
           /\ lastEvent' = Event("text", SKIP, "created"))
          => content'.case_studies[ProjX] = DemoStudy]_vars

\* C10: /skip at the add-case metrics step stores null in data.metrics and
\* moves to the tags step; /keep at the edit-case metrics step leaves
\* data.metrics at the value loaded from the document and moves to the tags
\* step; no other field of data changes
C10_MetricsSkipAndKeep ==
    [][\A u \in Users :
          LET st == userStates[u]
              st2 == userStates'[u]
          IN  /\ (/\ st.present /\ st.command = "add_case"
                   /\ st.currentStep = ADD_CASE_STATES[4]
                   /\ lastEvent' = Event("text", SKIP, "next_step"))
                  => /\ st2.present
                     /\ st2.command = "add_case"
                     /\ st2.currentStep = ADD_CASE_STATES[5]
                     /\ st2.data.metrics = Null
                     /\ \A f \in DataFields \ {"metrics"} : st2.data[f] = st.data[f]
              /\ (/\ st.present /\ st.command = "edit_case"
                   /\ st.currentStep = EDIT_CASE_STATES[4]
                   /\ lastEvent' = Event("text", KEEP, "next_step"))
                  => /\ st2.present
                     /\ st2.command = "edit_case"
                     /\ st2.currentStep = EDIT_CASE_STATES[5]
                     /\ st2.data = st.data
                     /\ st2.data.metrics =
                            OrElse(content.case_studies[st.data.id.s].metrics, Str(<<>>))]_vars

\* edit-case of proj_x stands at the tags step after /keep: proj_x was
\* created by an add-case run that skipped metrics, and the kept value is
\* the one loaded from the document
C10_Witness ==
    \E u \in Users :
        /\ userStates[u].present
        /\ userStates[u].command = "edit_case"
        /\ userStates[u].currentStep = EDIT_CASE_STATES[5]
        /\ userStates[u].data.id = Str(ProjX)
        /\ userStates[u].data.metrics = Str(<<>>)
        /\ lastEvent = Event("text", KEEP, "next_step")

\* C11: a text handled at the add-case id step leaves the user's state as
\* it is when it is /skip, ill-formed or the id of an existing case; the
\* state changes only for a well-formed unused id, which is stored in
\* data.id with currentStep at the title step and nothing else changed
C11_IdStepRejects ==
    [][\A u \in Users :
          LET st == userStates[u]
              st2 == userStates'[u]
              input == lastEvent'.input
              bad == \/ input = SKIP
                     \/ ~isValidCaseId(input)
                     \/ caseExists(content, input)
          IN  (/\ st.present /\ st.command = "add_case"
               /\ st.currentStep = ADD_CASE_STATES[1]
               /\ lastEvent'.op = "text")
              => /\ bad => (st2 = st /\ lastEvent'.out # "id_saved")
                 /\ st2 # st =>
                       /\ ~bad
                       /\ st2 = [st EXCEPT !.data.id = Str(input),
                                           !.currentStep = ADD_CASE_STATES[2]]
                 /\ content' = content]_vars

\* the id of the existing case was typed and refused at the id step
C11_Witness ==
    \E u \in Users :
        /\ userStates[u].present
        /\ userStates[u].command = "add_case"
        /\ userStates[u].currentStep = ADD_CASE_STATES[1]
        /\ userStates[u].data = AddCaseData
        /\ lastEvent = Event("text", OldCase, "exists")

\* C12: a text handled in add-case leaves currentStep where it is or moves
\* it to the next step of the fixed order; the wizard state ends only from
\* the learnings step, and updateContent is called only from the learnings
\* step
C12_AddCaseStepOrder ==
    [][\A u \in Users :
          LET st == userStates[u]
              st2 == userStates'[u]
              i == IndexOf(ADD_CASE_STATES, st.currentStep)
          IN  (/\ st.present /\ st.command = "add_case"
               /\ lastEvent'.op = "text")
              => /\ \/ /\ st2.present
                       /\ st2.command = "add_case"
                       /\ \/ st2.currentStep = st.currentStep
                          \/ i < 10 /\ st2.currentStep = ADD_CASE_STATES[i + 1]
                    \/ /\ ~st2.present
                       /\ i = 10
                       /\ lastEvent'.out = "created"
                 /\ (content' # content \/ \E k \in 1..Len(calls') :
                                              calls'[k].op = "updateContent")
                       => i = 10]_vars

\* the wizard went through every step and committed proj_x
C12_Witness ==
    /\ lastEvent = Event("text", SKIP, "created")
    /\ content.case_studies[ProjX].present
    /\ content.case_details[ProjX].present
    /\ \A u \in Users : ~userStates[u].present

\* C13: completing edit-case with the data as it was loaded (every answer
\* /keep) leaves case_studies[id] and case_details[id] of the document as
\* they were
C13_KeepIsNoOp ==
    [][\A u \in Users :
          LET st == userStates[u]
              id == st.data.id.s
          IN  (/\ st.present /\ st.command = "edit_case"
               /\ st.currentStep = EDIT_CASE_STATES[10]
               /\ st.data = EditCaseData(content, id)
               /\ lastEvent' = Event("text", KEEP, "updated"))
              => /\ content'.case_studies[id] = content.case_studies[id]
                 /\ content'.case_details[id] = content.case_details[id]]_vars

(***************************************************************************)
(* C20: navigateToMenu is idempotent on immediate re-entry: calling it     *)
(* twice in a row with the same display title leaves menuHistory and       *)
(* breadcrumbs exactly as after the first call, and the first call pushes  *)
(* the title only when it differs from the current top.                    *)
(***************************************************************************)
MenuTitles ==
    {MainMenuTitle} \cup {CategoryTitle(c) : c \in Categories}
    \cup {"Create Case", "Edit Case", "Delete Case"}

MenuStates == {MAIN_MENU, "active_workflow"} \cup {CategoryState(c) : c \in Categories}

C20_ReentryIsIdempotent ==
    \A u \in Users, title \in MenuTitles, s1 \in MenuStates, m1, m2 \in RenderIds :
      \A s2 \in {s1, MAIN_MENU} :
        LET before == IF HasNavigation(userStates, u)
                      THEN getNavigationContext(userStates, u)
                      ELSE DefaultNavigation(now)
            once == navigateToMenu(userStates, u, s1, title, m1, now)
            twice == navigateToMenu(once, u, s2, title, m2, now)
            first == getNavigationContext(once, u)
            second == getNavigationContext(twice, u)
        IN  /\ second.menuHistory = first.menuHistory
            /\ second.breadcrumbs = first.breadcrumbs
            /\ first.menuHistory =
                  IF Last(before.menuHistory) = title THEN before.menuHistory
                  ELSE Append(before.menuHistory, title)
            /\ first.breadcrumbs =
                  IF Last(before.menuHistory) = title THEN before.breadcrumbs
                  ELSE Append(before.breadcrumbs, title)
            /\ Last(first.menuHistory) = title

\* the content category menu has just been entered from the main menu
C20_Witness ==
    \E u \in Users :
        /\ userStates[u].present
        /\ userStates[u].navigation.menuHistory = <<MainMenuTitle, CategoryTitle("content")>>
        /\ userStates[u].navigation.breadcrumbs = <<MainMenuTitle, CategoryTitle("content")>>
        /\ userStates[u].navigation.lastAction = <<"navigate_to", CategoryState("content")>>
        /\ lastEvent = Event("callback", <<"nav">>, "routed")

(***************************************************************************)
(* C14: when an operation fails while a conversation step is processed     *)
(* (content fetch, backup, update, or sending the reply), the error is     *)
(* reported and the user's currentStep is the same as before the message.  *)
(***************************************************************************)
AnyFailed(ops) == \E i \in DOMAIN ops : ~ops[i].ok

C14_FailedStepKeepsStep ==
    [][\A u \in Users :
          LET st == userStates[u]
              st2 == userStates'[u]
          IN  (/\ st.present /\ st.command \in {"add_case", "edit_case"}
               /\ st.currentStep \in Range(ADD_CASE_STATES) \cup Range(EDIT_CASE_STATES)
               /\ lastEvent'.op = "text"
               /\ lastEvent'.out # "unhandled"
               /\ AnyFailed(calls') \/ AnyFailed(chat'))
              => /\ st2.present
                 /\ st2.currentStep = st.currentStep
                 /\ \E i \in DOMAIN chat' : chat'[i].op = "report" /\ chat'[i].ok]_vars

(***************************************************************************)
(* C15: for the token conf_{category}_{action}_confirm of the Confirm      *)
(* button the router executes that category/action; for a conf token with  *)
(* any other confirmType it navigates back and executes nothing.           *)
(***************************************************************************)
C15_ConfirmButtonExecutes ==
    [][\A u \in Users :
          (/\ lastEvent'.op = "callback"
           /\ lastEvent'.input \in ConfTokens
           /\ lastEvent'.out = "routed")
          => LET parts == Split(lastEvent'.input, "_")
             IN  IF Len(parts) = 4 /\ parts[4] = <<"confirm">>
                 THEN \E okGet, ctxWritable \in BOOLEAN :
                        userStates' =
                            executeConfirmedAction(userStates, u, parts[2], parts[3],
                                                   <<>>, content, okGet, ctxWritable,
                                                   rendered'.messageId, now)
                 ELSE userStates' = handleBackNavigation(userStates, u,
                                                         rendered'.messageId, now)]_vars

(***************************************************************************)
(* C16: while a user is mid-workflow (command or currentStep set), no nav, *)
(* act or conf button press resets or replaces the user's command,         *)
(* currentStep or workflow data, unless it is the confirmation of a        *)
(* confirmation menu.                                                      *)
(***************************************************************************)
C16_ButtonsKeepWizard ==
    [][\A u \in Users :
          (/\ isInActiveWorkflow(userStates, u)
           /\ lastEvent'.op = "callback"
           /\ ~(lastEvent'.input \in ConfTokens /\ IsConfirm(lastEvent'.input)))
          => /\ userStates'[u].present
             /\ userStates'[u].command = userStates[u].command
             /\ userStates'[u].currentStep = userStates[u].currentStep
             /\ userStates'[u].data = userStates[u].data]_vars

(***************************************************************************)
(* C17: each callback handler (nav, conf, act, page) acknowledges the      *)
(* callback query before the business action is attempted; an exception    *)
(* of the acknowledgement or of the business action that reaches the       *)
(* handler is not propagated but rendered as the navigation-error menu,    *)
(* whose retry button is nav_main.                                         *)
(***************************************************************************)
NavMain == generateCallback(<<<<"nav">>, <<"main">>>>)

\* the handler's catch ran: the acknowledgement threw, or a reply of the
\* business action threw and no error report was delivered for it
ReachedCatch(ops) ==
    \/ ~ops[1].ok
    \/ /\ \E i \in DOMAIN ops : ops[i].op = "reply" /\ ~ops[i].ok
       /\ ~\E j \in DOMAIN ops : ops[j].op = "report" /\ ops[j].ok

Tier(c) ==
    CASE c.op = "edit" -> 1
      [] c.op \in {"answer", "send"} -> 2
      [] c.op = "plain" -> 3

C18_TiersInOrder ==
    rendered.action # "none" =>
        LET ops == rendered.ops
            n == Len(ops)
            pressed == lastEvent.op = "callback"
        IN  /\ n >= 1
            /\ \A i \in 1..n : ops[i].op \in {"edit", "answer", "send", "plain"}
            /\ \A i, j \in 1..n : ops[i].op = ops[j].op => i = j
            /\ \A i \in 1..(n - 1) :
                  \/ Tier(ops[i]) < Tier(ops[i + 1]) /\ ~ops[i].ok
                  \/ /\ ops[i] = ChatOp("answer", TRUE)
                     /\ ops[i + 1].op = "send"
                     /\ i > 1 /\ ops[i - 1] = ChatOp("edit", FALSE)
            /\ ops[1].op = IF pressed THEN "edit" ELSE "send"
            /\ \A i \in 1..n : ops[i].op \in {"edit", "answer"} => pressed
            /\ ops[n].ok => ops[n].op # "answer"
            /\ rendered.success <=> (ops[n].ok /\ ops[n].op \in {"edit", "send"})
            /\ ops[n].ok <=> rendered.messageId # NoMessage
            /\ ~ops[n].ok => /\ ops[n].op = "plain"
                             /\ ~rendered.success
                             /\ rendered.action = "total_failure"

\* a press where the edit, the new message and the apology all failed, and
\* the handler went on to finish
C18_Witness ==
    /\ lastEvent = Event("callback", <<"nav">>, "routed")
    /\ rendered.ops = <<ChatOp("edit", FALSE), ChatOp("answer", TRUE),
                        ChatOp("send", FALSE), ChatOp("plain", FALSE)>>
    /\ ~rendered.success
    /\ rendered.action = "total_failure"

(***************************************************************************)
(* C19: after every render that edits or sends a message for a user, the   *)
(* user's navigation.messageId equals the messageId the render returned,   *)
(* and the render changes no other field of the user's state except        *)
(* navigation.lastInteraction (a user without a state entry gets one that  *)
(* holds the default navigation context and that id).                      *)
(***************************************************************************)
C19_RenderRecordsMessageId ==
    [][\A u \in Users :
          /\ (rendered'.messageId # NoMessage /\ lastEvent'.out \notin {"created", "updated"})
                => /\ userStates'[u].present
                   /\ userStates'[u].navigation.messageId = rendered'.messageId
          /\ (rendered'.messageId # NoMessage /\ lastEvent'.out \in {"page", "error"})
                => userStates'[u] =
                      [userStates[u] EXCEPT !.present = TRUE,
                                            !.navigation.messageId = rendered'.messageId,
                                            !.navigation.lastInteraction = now]
          /\ (rendered'.action = "total_failure" /\ lastEvent'.out \in {"page", "error"})
                => userStates'[u] = userStates[u]]_vars

\* mid-wizard, a page button was pressed; the edit failed, the menu went out
\* as a new message and the wizard's fields are still there
C19_Witness ==
    \E u \in Users :
        /\ lastEvent.out = "page"
        /\ rendered.action = "fallback_new_message"
        /\ userStates[u].command = "add_case"
        /\ userStates[u].currentStep = ADD_CASE_STATES[2]
        /\ userStates[u].navigation.messageId = rendered.messageId

(***************************************************************************)
(* C21: navigateBack on a user whose menuHistory has length 1 returns null *)
(* and leaves that user's whole state unchanged: menuHistory, breadcrumbs, *)
(* currentMenu, messageId, command, currentStep and data (and every other  *)
(* field of the entry).                                                    *)
(***************************************************************************)
C21_BackAtRootChangesNothing ==
    \A u \in Users :
        (HasNavigation(userStates, u)
            /\ Len(getNavigationContext(userStates, u).menuHistory) = 1)
        => /\ navigateBackIsNull(userStates, u)
           /\ navigateBack(userStates, u, now) = userStates

\* a wizard is under way on a rendered main menu, and the back button is
\* the next thing navigateBack is asked about
C21_Witness ==
    \E u \in Users :
        /\ HasNavigation(userStates, u)
        /\ Len(getNavigationContext(userStates, u).menuHistory) = 1
        /\ getNavigationContext(userStates, u).messageId # NoMessage
        /\ getNavigationContext(userStates, u).lastAction # <<>>
        /\ userStates[u].command = "add_case"
        /\ userStates[u].data["id"] # Undef

(***************************************************************************)
(* C22: isInActiveWorkflow(user) is true exactly when the user's command   *)
(* is set; it is false right after initUserState, after a wizard completed *)
(* its last step successfully, and after a cancel.                         *)
(***************************************************************************)
C22_ActiveWorkflowIffCommand ==
    \A u \in Users :
        /\ isInActiveWorkflow(userStates, u)
              <=> (userStates[u].present /\ ~Unset(userStates[u].command))
        /\ ~isInActiveWorkflow(initUserState(userStates, u, now), u)
        /\ lastEvent.op = "/cancel" => ~isInActiveWorkflow(userStates, u)
        /\ (lastEvent.op = "text" /\ lastEvent.out \in {"created", "updated"})
              => ~isInActiveWorkflow(userStates, u)

\* the add-case wizard has just saved its case
C22_Witness ==
    \E u \in Users :
        /\ lastEvent.op = "text" /\ lastEvent.out = "created"
        /\ AllOk(calls) /\ calls # <<>>
        /\ ~isInActiveWorkflow(userStates, u)

(***************************************************************************)
(* C23: end-to-end navigation.  /start renders the main menu with the 4    *)
(* category buttons; pressing Content renders the content category menu,   *)
(* which contains a back button; pressing that back button renders the     *)
(* main menu again, and the user's menuHistory then has length 1 with      *)
(* currentMenu = main_menu.  Stated in every state that /start left, for   *)
(* every outcome (message id) of the two renders that follow.              *)
(***************************************************************************)
C23_StartContentBackRoundTrip ==
    \A u \in Users :
        lastEvent.op = "/start" =>
            /\ Len(rendered.buttons) = 4
            /\ Range(rendered.buttons) = {Tok(<<"nav", c>>) : c \in Categories}
            /\ userStates[u].navigation.currentMenu = MAIN_MENU
            /\ userStates[u].navigation.menuHistory = <<MainMenuTitle>>
            /\ \A m1, m2 \in RenderIds :
                  LET pressContent == Tok(<<"nav", "content">>)
                      us2 == handleNavigationCallback(userStates, u, pressContent, m1, now)
                      menu2 == NavigationMenu(userStates, u, pressContent)
                      backs == {b \in Range(menu2) :
                                   /\ parseCallback(b).type = <<"nav">>
                                   /\ parseCallback(b).action \in {<<"main">>, <<"back">>}}
                  IN  /\ us2[u].navigation.currentMenu = "content_category"
                      /\ us2[u].navigation.menuHistory =
                            <<MainMenuTitle, "Content Management">>
                      /\ menu2 = getCategoryMenu("content")
                      /\ backs # {}
                      /\ \A b \in backs :
                            LET us3 == handleNavigationCallback(us2, u, b, m2, now)
                            IN  /\ NavigationMenu(us2, u, b) = getMainMenu
                                /\ Len(us3[u].navigation.menuHistory) = 1
                                /\ us3[u].navigation.currentMenu = MAIN_MENU

\* the round trip as the program ran it: a button press edited the message
\* of the menu into the main menu, for a user back at the root
C23_Witness ==
    \E u \in Users :
        /\ lastEvent = Event("callback", <<"nav">>, "routed")
        /\ rendered.action = "edited"
        /\ rendered.buttons = getMainMenu
        /\ userStates[u].navigation.menuHistory = <<MainMenuTitle>>
        /\ userStates[u].navigation.currentMenu = MAIN_MENU
        /\ userStates[u].navigation.messageId = rendered.messageId

(***************************************************************************)
(* C24 (as stated): every check that ends in an exception increments the   *)
(* error counter by one; when the counter exceeds 5, exactly one warning   *)
(* is sent to the admin and the counter is reset to 0, so the counter is   *)
(* never above 5 after a check has finished.                               *)
(***************************************************************************)
C24_WarnedAndResetAboveThreshold ==
    [][LET failing == chk.pc \in {"fetch", "content"} /\ chk'.pc = "idle"
           n == stats.errors + 1
       IN  /\ failing =>
                 IF n > ErrorThreshold
                 THEN lastEvent'.out = "failed_warned" /\ stats'.errors = 0
                 ELSE lastEvent'.out = "failed" /\ stats'.errors = n
           /\ ~failing => stats'.errors = stats.errors
           /\ chk'.pc = "idle" => stats'.errors <= ErrorThreshold]_vars

\* C24 (amended): every check that ends in an exception increments the
\* error counter by one and nothing else changes it; up to 5 no warning is
\* attempted; above 5 exactly one warning is attempted, and the counter is
\* reset to 0 when that warning was delivered and keeps its value above 5
\* when the send failed, so that the counter gets above 5 only through a
\* lost warning and a delivered warning always stands for at least 6
\* failed checks
C24_WarnAttemptedResetWhenDelivered ==
    [][LET failing == chk.pc \in {"fetch", "content"} /\ chk'.pc = "idle"
           n == stats.errors + 1
       IN  /\ failing =>
                 /\ lastEvent'.op = "check"
                 /\ n <= ErrorThreshold =>
                       lastEvent'.out = "failed" /\ stats'.errors = n
                 /\ n > ErrorThreshold =>
                       /\ lastEvent'.out \in {"failed_warned", "failed_warning_lost"}
                       /\ lastEvent'.out = "failed_warned" => stats'.errors = 0
                       /\ lastEvent'.out = "failed_warning_lost" => stats'.errors = n
           /\ ~failing =>
                 /\ stats'.errors = stats.errors
                 /\ lastEvent'.op = "check" => lastEvent' = lastEvent
           /\ stats'.errors > ErrorThreshold =>
                 \/ stats.errors > ErrorThreshold
                 \/ lastEvent'.out = "failed_warning_lost"
           /\ lastEvent'.out = "failed_warned" =>
                 stats'.checksPerformed > ErrorThreshold]_vars

\* two warnings in a row were lost: the counter stands at 7 after the check
C24_Witness ==
    /\ chk.pc = "idle"
    /\ stats.errors = ErrorThreshold + 2
    /\ lastEvent = Event("check", <<>>, "failed_warning_lost")

(***************************************************************************)
(* C25: for a new visit with no extractable access code, one notification  *)
(* (labelled as anonymous) is attempted if its list of visited pages is    *)
(* non-empty and none is attempted if that list is empty; in both cases    *)
(* the visit id is in notifiedVisitIds afterwards.                         *)
(***************************************************************************)
C25_AnonymousNotifiedUnlessNoPages ==
    [][(chk.pc = "loop" /\ chk.visits # <<>> /\ chk' # chk) =>
          LET v == Head(chk.visits)
          IN  (~alreadyNotified(notifiedVisitIds, v)
                  /\ matomo[v].kind \in {"anonymous", "anonymous_nopages"})
              => /\ Has(notifiedVisitIds', v)
                 /\ matomo[v].kind = "anonymous" => chk'.pc = "send"
                 /\ matomo[v].kind = "anonymous_nopages" =>
                       /\ chk'.pc = "loop"
                       /\ chk'.visits = Tail(chk.visits)
                       /\ attempts'[v] = 0]_vars

(***************************************************************************)
(* C26: a user state is evicted only after 1 hour of inactivity: a user    *)
(* whose most recent handled interaction is less than 1 hour old is never  *)
(* removed by the sweep, and a user with no interaction for more than 1    *)
(* hour is removed by the next sweep.  The time of the latest interaction  *)
(* is the lastInteraction that every button press writes.                  *)
(***************************************************************************)
C26_EvictedAfterOneHourIdle ==
    [][lastEvent'.op = "sweep" =>
          \A u \in Users :
              userStates[u].present =>
                  LET idle == now - userStates[u].navigation.lastInteraction
                  IN  /\ idle < Hour => userStates'[u].present
                      /\ idle > Hour => ~userStates'[u].present]_vars

(***************************************************************************)
(* C29: each check fetches exactly the visits whose timestamp t satisfies  *)
(* lastCheckTime < t <= checkStartTime: a visit stamped lastCheckTime is   *)
(* not returned, one stamped checkStartTime is, and so no visit is         *)
(* returned to two checks whose fetches both succeeded.                    *)
(***************************************************************************)
C29_FetchWindowHalfOpen ==
    [][(chk.pc = "fetch" /\ chk'.pc = "content") =>
          /\ Range(chk'.visits) =
                {v \in VisitIds : /\ matomo[v].present
                                  /\ chk.since < matomo[v].ts
                                  /\ matomo[v].ts <= chk.checkStartTime}
          /\ \A v \in Range(chk'.visits) : fetched[v] = 0]_vars

(***************************************************************************)
(* C30: parseCallback is the inverse of generateCallback for every token   *)
(* the program builds: parsing generateCallback(type, action, d1, ..., dn) *)
(* gives type, action and data = <<d1, ..., dn>>, for the tokens of the    *)
(* menus and for the tokens that embed a case id accepted by the id-format *)
(* rule, whenever such a token is pressed.                                 *)
(***************************************************************************)
C30_MenuSegments ==
    {<<<<"nav">>, <<"main">>>>, <<<<"nav">>, <<"back">>>>,
     <<<<"act">>, <<"cancel">>>>, <<<<"act">>, <<"skip">>>>,
     <<<<"page">>, <<"cases">>, <<"2">>>>,
     <<<<"conf">>, <<"content">>, <<"create">>, <<"confirm">>>>}
    \cup {<<<<"nav">>, <<c>>>> : c \in Categories}
    \cup {<<<<"act">>, <<c>>, <<a>>>> :
             c \in Categories, a \in {"create", "edit", "list", "view", "status", "about"}}

C30_CaseSegments ==
    {<<<<"conf">>, <<"content">>, <<a>>, c>> :
        a \in {"edit", "preview", "delete"}, c \in CaseIds}

C30_Parsed(parts) ==
    [type |-> parts[1], action |-> parts[2],
     data |-> SubSeq(parts, 3, Len(parts))]

C30_ParseInvertsGenerate ==
    /\ \A parts \in C30_MenuSegments :
          parseCallback(generateCallback(parts)) = C30_Parsed(parts)
    /\ \A parts \in C30_CaseSegments :
          (lastEvent.op = "callback" /\ lastEvent.input = generateCallback(parts))
              => parseCallback(lastEvent.input) = C30_Parsed(parts)

C31_PromptRepeatsOrDelegates ==
    [][\A u \in Users :
          (/\ lastEvent'.op = "text"
           /\ lastEvent'.out \in {"delegated", "reprompt"}
           /\ userStates[u].present
           /\ userStates[u].command \in PromptCommands) =>
              LET st == userStates[u]
                  answer == Trim(lastEvent'.input)
                  rejected == IF st.command = "rollback_prompt"
                              THEN ~IsVersionNumber(answer)
                              ELSE answer = <<>>
              IN  /\ rejected =>
                        /\ userStates' = userStates
                        /\ lastEvent'.out = "reprompt"
                        /\ calls' = <<>>
                  /\ ~rejected =>
                        /\ lastEvent'.out = "delegated"
                        /\ ~(userStates'[u].present
                               /\ userStates'[u].command \in PromptCommands)
                        /\ Len(calls') <= 1
                        /\ st.command # "edit_case_prompt" =>
                              /\ ~userStates'[u].present
                              /\ calls' = <<>>
                        /\ userStates'[u].present =>
                              /\ userStates'[u].command = "edit_case"
                              /\ userStates'[u].currentStep = EDIT_CASE_STATES[2]
                              /\ caseExists(content, FirstWord(answer))
                              /\ userStates'[u].data =
                                    EditCaseData(content, FirstWord(answer))
                              /\ calls' # <<>>]_vars

\* the edit prompt was answered with the id of an existing case and the
\* edit dialog for that case began
C31_Witness ==
    \E u \in Users :
        /\ lastEvent = Event("text", OldCase, "delegated")
        /\ userStates[u].present
        /\ userStates[u].command = "edit_case"
        /\ userStates[u].data = EditCaseData(content, OldCase)
        /\ Len(calls) = 1

(***************************************************************************)
(* C32: when edit-case was started without an id (command edit_case, step  *)
(* waiting_case_id_to_edit), a text message carrying the id of an existing *)
(* case is consumed by the conversation engine and brings the wizard to    *)
(* the title step with that case's fields pre-populated.                   *)
(***************************************************************************)
C32_IdAnswerStartsEdit ==
    [][\A u \in Users :
          (/\ userStates[u].present
           /\ userStates[u].command = "edit_case"
           /\ userStates[u].currentStep = EDIT_CASE_STATES[1]
           /\ lastEvent'.op = "text"
           /\ lastEvent' # lastEvent
           /\ caseExists(content, lastEvent'.input)) =>
              /\ lastEvent'.out # "unhandled"
              /\ userStates'[u].present
              /\ userStates'[u].command = "edit_case"
              /\ userStates'[u].currentStep = EDIT_CASE_STATES[2]
              /\ userStates'[u].data = EditCaseData(content, lastEvent'.input)]_vars

\* the nav tokens that name a category and one of its actions
NavActionTokens == {token \in NavTokens : Len(parseCallback(token).data) >= 1}

\* C34: a press of a nav_{category}_{action} button is routed to the action of
\* that category (its confirmation menu when a workflow is active): the state
\* after the press is the one handleCategoryActionNavigation leaves for that
\* category and action
C34_NavActionTokensReachTheAction ==
    [][\A u \in Users, token \in NavActionTokens :
          NavCallback(u, token, UniformRenders) =>
              LET parsed == parseCallback(token)
                  us1 == IF ~HasNavigation(userStates, u)
                         THEN initUserState(userStates, u, now) ELSE userStates
              IN  userStates' =
                      handleCategoryActionNavigation(
                          us1, u,
                          [parsed EXCEPT !.data = <<parsed.action, parsed.data[1]>>],
                          rendered'.messageId, now)]_vars

\* C35: a user who sent /start, has no active workflow and is on the Content
\* menu starts the add-case wizard by pressing Create (act_content_create):
\* afterwards command = add_case, currentStep = waiting_id, the draft is empty
C35_MenuStartsAddCase ==
    [][\A u \in Users :
          (/\ HasNavigation(userStates, u)
           /\ ~isInActiveWorkflow(userStates, u)
           /\ getNavigationContext(userStates, u).currentMenu = CategoryState("content")
           /\ ActCallback(u, Tok(<<"act", "content", "create">>), UniformRenders)
           /\ lastEvent'.out = "executed")
          => /\ userStates'[u].present
             /\ userStates'[u].command = "add_case"
             /\ userStates'[u].currentStep = ADD_CASE_STATES[1]
             /\ userStates'[u].data = AddCaseData]_vars

\* C36: while a wizard is active and has shown a progress menu, a press of the
\* Cancel button of that menu (act_cancel) ends the workflow: afterwards the
\* user is in no active workflow and the draft is gone
C36_CancelButtonEndsWorkflow ==
    [][\A u \in Users :
          (/\ isInActiveWorkflow(userStates, u)
           /\ \/ /\ userStates[u].command = "add_case"
                 /\ userStates[u].currentStep \in Range(Tail(Tail(ADD_CASE_STATES)))
              \/ /\ userStates[u].command = "edit_case"
                 /\ userStates[u].currentStep \in Range(Tail(Tail(EDIT_CASE_STATES)))
           /\ ActCallback(u, Tok(<<"act", "cancel">>), UniformRenders))
          => /\ ~isInActiveWorkflow(userStates', u)
             /\ userStates'[u].present => userStates'[u].data = EmptyData]_vars

\* C37: no fetched visit is lost.  When a check whose fetch returned (so that
\* lastCheckTime was advanced) ends, normally or in the catch, every visit of
\* that fetch it has not gone through is in notifiedVisitIds or is still
\* inside the window of the next check
C37_NoFetchedVisitLost ==
    [][(chk.pc \notin {"idle", "fetch"} /\ chk'.pc = "idle")
          => \A v \in Range(chk.visits) :
                \/ Has(notifiedVisitIds', v)
                \/ matomo[v].ts >= stats'.lastCheckTime]_vars

C39_OneAttemptUnderOverlap ==
    \A v \in VisitIds : fetched[v] = 2 => attempts[v] <= 1

\* both calls are past their fetch and hold the same id; one has marked it and
\* attempted its notification, the other is about to test it
C39_Witness ==
    \E v \in VisitIds :
        /\ inFlight = 2
        /\ fetched[v] = 2
        /\ attempts[v] = 1
        /\ chk.pc = "loop"
        /\ chk.visits # <<>>
        /\ Head(chk.visits) = v
        /\ suspended.pc \in {"loop", "cleanup"}
        /\ ~Has(suspended.visits, v)

====
